---- MODULE Spec2Model ----
(***************************************************************************)
(* A model of the node core of likelib: Core (addPendingTransaction,       *)
(* tryAddBlock, checkBlock, applyBlockTransactions, tryPerformTransaction),*)
(* the DatabaseManager block store and the collaborators Core drives       *)
(* (Blockchain, StateManager, TransactionsSet, Observable).                *)
(*                                                                         *)
(* Hashes: base::Sha256::compute is treated as a collision-free oracle.    *)
(* A hash is the serialized byte sequence it was computed over (a sequence *)
(* of integers), so two objects have equal hashes exactly when their       *)
(* serializations are equal.  Addresses, amounts and time are scaled to    *)
(* small integers.                                                         *)
(***************************************************************************)
EXTENDS Integers, Sequences, FiniteSets, TLC

(***************************************************************************)
(* Bounds of the model.                                                    *)
(***************************************************************************)
MaxDepth == 2       \* blocks are offered with depth 1..MaxDepth
MaxTime == 2        \* blocks are offered with timestamp 1..MaxTime
MaxPending == 2     \* the pending pool is offered a tx only below this size
MaxSubscribers == 2 \* subscribers per event, the node's own broadcast included
MaxBalance == 3     \* the executor starts from balances 0..MaxBalance
MaxAmount == 2      \* executed transactions carry amount 0..MaxAmount
MaxFee == 1
MaxPool == 3
MaxPeers == 1         \* executed transactions carry fee 0..MaxFee

(***************************************************************************)
(* Program constants, scaled.                                              *)
(***************************************************************************)
GenesisTime == 0                  \* base::Time(1583789617)
GenesisSupply == 4                \* lk::Balance{ "0xff..ff" }
EMISSION_VALUE == 1               \* base::config::BC_EMISSION_VALUE
BC_MAX_TRANSACTIONS_IN_BLOCK == 2 \* base::config::BC_MAX_TRANSACTIONS_IN_BLOCK

(***************************************************************************)
(* Addresses.  NullAddress is lk::Address::null(); GenesisRecipient is the *)
(* fixed base58 recipient of the genesis transaction; UserA is another     *)
(* key holder; Miner is the coinbase of offered blocks.                    *)
(***************************************************************************)
NullAddress == 0
GenesisRecipient == 1
UserA == 2
Miner == 3

NoData == 0       \* base::Bytes{}: empty transaction data
InitCode == 1     \* a contract's init code
Codes == {InitCode}

\* RIPEMD160(SHA256(creator || code_hash)): an injective derivation.
ContractAddress(creator, code_hash) == 10 * creator + code_hash

Users == {GenesisRecipient, UserA, Miner}
Addresses == {NullAddress} \cup Users \cup
             {ContractAddress(u, c) : u \in {GenesisRecipient, UserA}, c \in Codes \cup {NoData}}

(***************************************************************************)
(* Transactions.                                                           *)
(***************************************************************************)
\* Transaction::serializeHeader: the signed part of a transaction.
serializeHeader(tx) == <<tx.from, tx.to, tx.amount, tx.fee, tx.timestamp, tx.data>>

\* Transaction::hashOfTxData: SHA256 of the header.
hashOfTxData(tx) == serializeHeader(tx)

\* Sign::serialize: a null signature is one zero byte; otherwise the flag,
\* the public key and the encrypted hash.
serializeSign(s) == IF s.null THEN <<0>> ELSE <<1, s.pub>> \o s.hash

MutHashWithoutRecipient(tx) ==
    <<tx.from, tx.amount, tx.fee, tx.timestamp, tx.data>> \o serializeSign(tx.sign)

\* Transaction::serialize and hashOfTransaction: SHA256 of header and sign.
hashOfTransaction(tx) == serializeHeader(tx) \o serializeSign(tx.sign)

\* A null bc::Sign.
NullSign == [null |-> TRUE, pub |-> NullAddress, hash |-> <<>>]

\* Transaction::sign: the key of `owner` encrypts the hash of header `h`.
\* A public key is modelled by the address Address::fromPublicKey derives
\* from it; pub.decrypt(enc_hash) yields the hash that was encrypted.
MakeSign(owner, h) == [null |-> FALSE, pub |-> owner, hash |-> h]

MutCheckSignNoAddress(tx) ==
    IF tx.sign.null THEN FALSE
    ELSE tx.sign.hash = hashOfTxData(tx)

\* Transaction::checkSign.
checkSign(tx) ==
    IF tx.sign.null THEN FALSE
    ELSE IF tx.from # tx.sign.pub THEN FALSE
    ELSE tx.sign.hash = hashOfTxData(tx)

Header(from, to, amount, fee, data) ==
    [from |-> from, to |-> to, amount |-> amount, fee |-> fee,
     timestamp |-> GenesisTime, data |-> data]

WithSign(h, s) ==
    [from |-> h.from, to |-> h.to, amount |-> h.amount, fee |-> h.fee,
     timestamp |-> h.timestamp, data |-> h.data, sign |-> s]

\* A transaction signed by its sender.
Signed(h) == WithSign(h, MakeSign(h.from, serializeHeader(h)))

H1 == Header(GenesisRecipient, UserA, 3, 0, NoData)
H2 == Header(GenesisRecipient, UserA, 1, 1, NoData)
H3 == Header(UserA, GenesisRecipient, 1, 0, NoData)
H5 == Header(GenesisRecipient, UserA, 1, 0, NoData)

\* Transactions with a signature that does not verify: unsigned, signed by
\* another key, and carrying the signature of another header.
BadTxs == { WithSign(H1, NullSign),
            WithSign(H2, MakeSign(UserA, serializeHeader(H2))),
            WithSign(H3, MakeSign(UserA, serializeHeader(H1))) }

\* The transactions clients submit.
PendingTxUniverse == {Signed(H1), Signed(H2), Signed(H3), Signed(H5)} \cup BadTxs

\* The transactions offered inside blocks.
BlockTxUniverse == {Signed(H2), Signed(H5), WithSign(H1, NullSign)}

(***************************************************************************)
(* TransactionStatus and the VM's evmc::result.                            *)
(***************************************************************************)
Status(code, action, gas, message) ==
    [code |-> code, action |-> action, gas |-> gas, message |-> message]

NoMessage == NullAddress

\* The result of a transaction that runs no VM.
NoVm == [status |-> "NONE", gas_left |-> 0, output |-> NoData]

\* The results the VM may hand back for a transaction given tx.getFee() gas.
VmResults(tx) ==
    IF tx.to # NullAddress /\ tx.data = NoData
    THEN {NoVm}
    ELSE { [status |-> s, gas_left |-> g, output |-> o] :
             s \in {"SUCCESS", "REVERT", "FAILURE"}, g \in 0..tx.fee, o \in Codes }

(***************************************************************************)
(* StateManager: Address -> AccountState.  An address without an entry     *)
(* maps to NoAccount.                                                      *)
(***************************************************************************)
NoAccount ==
    [exists |-> FALSE, type |-> "CLIENT", balance |-> 0, txs |-> <<>>, code |-> NoData,
     storage |-> <<>>]

EmptyState == [a \in Addresses |-> NoAccount]

hasAccount(sm, a) == sm[a].exists

\* getAccount creates a CLIENT entry with zero balance on first access.
getAccount(sm, a) == IF sm[a].exists THEN sm ELSE [sm EXCEPT ![a].exists = TRUE]

getBalance(sm, a) == sm[a].balance

addBalance(sm, a, v) == [sm EXCEPT ![a].balance = @ + v]

\* subBalance raises when the balance is smaller than v.
canSubBalance(sm, a, v) == sm[a].balance >= v

subBalance(sm, a, v) == [sm EXCEPT ![a].balance = @ - v]

addTransactionHash(sm, a, h) == [sm EXCEPT ![a].txs = Append(@, h)]

checkTransaction(sm, tx) == getBalance(sm, tx.from) >= tx.amount + tx.fee

\* tryTransferMoney: succeeds iff the sender holds the amount.
canTransferMoney(sm, from, to, amount) == hasAccount(sm, from) /\ getBalance(sm, from) >= amount

tryTransferMoney(sm, from, to, amount) ==
    IF canTransferMoney(sm, from, to, amount)
    THEN addBalance(subBalance(getAccount(sm, to), from, amount), to, amount)
    ELSE sm

\* createContractAccount raises when the derived address is taken.
canCreateContractAccount(sm, creator, code_hash) ==
    ~hasAccount(sm, ContractAddress(creator, code_hash))

createContractAccount(sm, creator, code_hash) ==
    [sm EXCEPT ![ContractAddress(creator, code_hash)] =
        [exists |-> TRUE, type |-> "CONTRACT", balance |-> 0, txs |-> <<>>, code |-> NoData,
         storage |-> <<>>]]

setRuntimeCode(sm, a, code) == [sm EXCEPT ![a].code = code]

\* updateFromGenesis: the genesis transaction grants the supply.
updateFromGenesis(sm, genesis) ==
    LET tx == genesis.txs[1]
    IN addBalance(getAccount(sm, tx.to), tx.to, tx.amount)

(***************************************************************************)
(* The tx-hash -> status map (_tx_outputs): a set of <<hash, status>>      *)
(* holding at most one pair per hash.                                      *)
(***************************************************************************)
hasOutput(outs, h) == \E p \in outs : p[1] = h

storedOutput(outs, h) == (CHOOSE p \in outs : p[1] = h)[2]

\* Core::getTransactionOutput: the stored status, else Failed/None.
getTransactionOutput(outs, h) ==
    IF hasOutput(outs, h) THEN storedOutput(outs, h)
    ELSE Status("Failed", "None", 0, NoMessage)

\* Core::addTransactionOutput: insert or overwrite.
addTransactionOutput(outs, h, status) ==
    {p \in outs : p[1] # h} \cup {<<h, status>>}

(***************************************************************************)
(* Blocks.                                                                 *)
(***************************************************************************)
ZeroHash == <<0>>   \* base::Sha256(base::Bytes(32))

RECURSIVE serializeTransactions(_)
serializeTransactions(txs) ==
    IF txs = <<>> THEN <<>>
    ELSE LET t == hashOfTransaction(Head(txs))
         IN <<Len(t)>> \o t \o serializeTransactions(Tail(txs))

\* base::toBytes(block): the fields in declared order, sequences prefixed
\* with their length.
toBytes(b) ==
    <<b.depth, Len(b.prev_hash)>> \o b.prev_hash \o
    <<b.timestamp, b.coinbase, Len(b.txs)>> \o serializeTransactions(b.txs)

\* base::Sha256::compute(base::toBytes(block)).
hashOfBlock(b) == toBytes(b)

Block(depth, prev_hash, timestamp, coinbase, txs) ==
    [depth |-> depth, prev_hash |-> prev_hash, timestamp |-> timestamp,
     coinbase |-> coinbase, txs |-> txs]

\* Core::getGenesisBlock.
getGenesisBlock ==
    Block(0, ZeroHash, GenesisTime, NullAddress,
          << [from |-> NullAddress, to |-> GenesisRecipient, amount |-> GenesisSupply,
              fee |-> 0, timestamp |-> GenesisTime, data |-> NoData, sign |-> NullSign] >>)

(***************************************************************************)
(* TransactionsSet: an ordered, duplicate-free sequence of transactions.   *)
(***************************************************************************)
Range(q) == {q[i] : i \in 1..Len(q)}

RECURSIVE SeqFilterOut(_, _)
SeqFilterOut(q, hs) ==
    IF q = <<>> THEN <<>>
    ELSE IF hashOfTransaction(Head(q)) \in hs
         THEN SeqFilterOut(Tail(q), hs)
         ELSE <<Head(q)>> \o SeqFilterOut(Tail(q), hs)

\* TransactionsSet::find(tx).
setFind(set, tx) == \E i \in 1..Len(set) : hashOfTransaction(set[i]) = hashOfTransaction(tx)

\* TransactionsSet::add: no-op if a transaction of the same hash is present.
setAdd(set, tx) == IF setFind(set, tx) THEN set ELSE Append(set, tx)

\* TransactionsSet::remove(TransactionsSet).
setRemove(set, other) == SeqFilterOut(set, {hashOfTransaction(t) : t \in Range(other)})

RECURSIVE costOf(_, _)
costOf(set, a) ==
    IF set = <<>> THEN 0
    ELSE (IF Head(set).from = a THEN Head(set).amount + Head(set).fee ELSE 0)
         + costOf(Tail(set), a)

\* lk::calcCost: the senders of the set (the keys of the map) and, for each,
\* the sum of amount + fee over its transactions.
calcCostKeys(set) == {t.from : t \in Range(set)}

calcCost(set, a) == costOf(set, a)

(***************************************************************************)
(* DatabaseManager: the persistent store (BLOCK, PREVIOUS_BLOCK_HASH and   *)
(* LAST_BLOCK_HASH_KEY entries) and the cached _last_block_hash.           *)
(***************************************************************************)
EmptyDatabase ==
    [block |-> <<>>, prev |-> <<>>, last |-> ZeroHash, last_block_hash |-> ZeroHash]

dbExists(db, h) == h \in DOMAIN db.block

Put(f, k, v) == [x \in DOMAIN f \cup {k} |-> IF x = k THEN v ELSE f[x]]

MutAddBlockAlwaysCaches(db, block_hash, block) ==
    IF dbExists(db, block_hash) THEN [db EXCEPT !.last_block_hash = block_hash]
    ELSE [block |-> Put(db.block, block_hash, block),
          prev |-> Put(db.prev, block_hash, block.prev_hash),
          last |-> block_hash,
          last_block_hash |-> block_hash]

MutAddBlockNoParentLink(db, block_hash, block) ==
    IF dbExists(db, block_hash) THEN db
    ELSE [block |-> Put(db.block, block_hash, block),
          prev |-> Put(db.prev, block_hash, ZeroHash),
          last |-> block_hash,
          last_block_hash |-> block_hash]

\* DatabaseManager::addBlock.
addBlock(db, block_hash, block) ==
    IF dbExists(db, block_hash) THEN db
    ELSE [block |-> Put(db.block, block_hash, block),
          prev |-> Put(db.prev, block_hash, block.prev_hash),
          last |-> block_hash,
          last_block_hash |-> block_hash]

\* DatabaseManager::findBlock.
dbFindBlock(db, h) == IF dbExists(db, h) THEN {db.block[h]} ELSE {}

\* DatabaseManager::getLastBlockHash.
getLastBlockHash(db) == db.last_block_hash

\* std::reverse.
Reverse(q) == [i \in 1..Len(q) |-> q[Len(q) + 1 - i]]

\* The loop of DatabaseManager::createAllBlockHashesList after `steps` more
\* iterations at most.  ASSERT(previous_block_hash_data) on an absent entry
\* ends the process ("fatal"); a loop still running after more iterations
\* than there are parent links never ends ("diverges").
RECURSIVE walkFrom(_, _, _, _)
walkFrom(db, current_block_hash, all_blocks_hashes, steps) ==
    IF current_block_hash = ZeroHash
    THEN [status |-> "returned", hashes |-> all_blocks_hashes]
    ELSE IF steps = 0
    THEN [status |-> "diverges", hashes |-> <<>>]
    ELSE IF current_block_hash \notin DOMAIN db.prev
    THEN [status |-> "fatal", hashes |-> <<>>]
    ELSE walkFrom(db, db.prev[current_block_hash],
                  Append(all_blocks_hashes, current_block_hash), steps - 1)

MutCreateListNoReverse(db) ==
    walkFrom(db, getLastBlockHash(db), <<>>, Cardinality(DOMAIN db.prev) + 1)

\* DatabaseManager::createAllBlockHashesList.
createAllBlockHashesList(db) ==
    LET r == walkFrom(db, getLastBlockHash(db), <<>>, Cardinality(DOMAIN db.prev) + 1)
    IN [status |-> r.status, hashes |-> Reverse(r.hashes)]

(***************************************************************************)
(* Blockchain: the chain over the DatabaseManager, with its depth index.   *)
(* A chain value is [db |-> DatabaseManager, by_depth |-> depth -> hash].  *)
(***************************************************************************)
EmptyChain == [db |-> EmptyDatabase, by_depth |-> <<>>]

chainIsEmpty(bc) == DOMAIN bc.db.block = {}

getTopBlockHash(bc) == getLastBlockHash(bc.db)

getTopBlock(bc) == bc.db.block[getTopBlockHash(bc)]

findBlock(bc, h) == dbFindBlock(bc.db, h)

findBlockHashByDepth(bc, d) == IF d \in DOMAIN bc.by_depth THEN {bc.by_depth[d]} ELSE {}

\* Blockchain::findTransaction: the transaction of that hash in a stored block.
findTransaction(bc, h) ==
    { t \in UNION { Range(bc.db.block[x].txs) : x \in DOMAIN bc.db.block } :
        hashOfTransaction(t) = h }

\* Blockchain::tryAddBlock accepts a block that extends the top block by
\* prev_hash and depth and is not stored yet (the first block of an empty
\* chain is the genesis).
blockchainCanAdd(bc, b) ==
    \/ chainIsEmpty(bc)
    \/ /\ b.prev_hash = getTopBlockHash(bc)
       /\ b.depth = getTopBlock(bc).depth + 1
       /\ ~dbExists(bc.db, hashOfBlock(b))

blockchainAdd(bc, b) ==
    [db |-> addBlock(bc.db, hashOfBlock(b), b),
     by_depth |-> Put(bc.by_depth, b.depth, hashOfBlock(b))]

(***************************************************************************)
(* Core::tryPerformTransaction.  `sm` is the canonical StateManager, `outs`*)
(* the tx-output map, `vm` the result the VM hands back if it is run.  The *)
(* value is the canonical state and output map after the call, and whether *)
(* an error left the function.                                             *)
(***************************************************************************)
Performed(sm, outs, threw) == [sm |-> sm, outs |-> outs, threw |-> threw]

\* The REVERT and other-status paths: the canonical state is charged.
chargeCanonical(sm, outs, h, tx, block, vm, code, action) ==
    IF canSubBalance(getAccount(sm, tx.from), tx.from, vm.gas_left)
    THEN Performed(
           addBalance(getAccount(subBalance(getAccount(sm, tx.from), tx.from, vm.gas_left),
                                 block.coinbase),
                      block.coinbase, tx.fee - vm.gas_left),
           addTransactionOutput(outs, h, Status(code, action, vm.gas_left, NoMessage)),
           FALSE)
    ELSE Performed(sm, addTransactionOutput(outs, h, Status("Failed", action, tx.fee, NoMessage)),
                   FALSE)

MutCommitNoRefund(tm, outs, h, tx, block, vm, action, message) ==
    Performed(
      addBalance(getAccount(tm, block.coinbase), block.coinbase, tx.fee - vm.gas_left),
      addTransactionOutput(outs, h, Status("Success", action, vm.gas_left, message)),
      FALSE)

\* The SUCCESS path of both contract branches: fee to the coinbase, gas
\* refund to the sender, snapshot applied.
commitVm(tm, outs, h, tx, block, vm, action, message) ==
    Performed(
      addBalance(getAccount(addBalance(getAccount(tm, block.coinbase), block.coinbase,
                                       tx.fee - vm.gas_left),
                            tx.from),
                 tx.from, vm.gas_left),
      addTransactionOutput(outs, h, Status("Success", action, vm.gas_left, message)),
      FALSE)

performContractCreation(sm, outs, h, tx, block, vm) ==
    LET failed == Performed(sm, addTransactionOutput(outs, h,
                     Status("Failed", "ContractCreation", tx.fee, NoMessage)), FALSE)
        tm0 == getAccount(sm, tx.from)
        contract_address == ContractAddress(tx.from, tx.data)
    IN IF ~canSubBalance(tm0, tx.from, tx.fee) THEN failed
       ELSE IF ~canCreateContractAccount(tm0, tx.from, tx.data) THEN failed
       ELSE LET tm1 == createContractAccount(subBalance(tm0, tx.from, tx.fee), tx.from, tx.data)
            IN IF ~canTransferMoney(tm1, tx.from, contract_address, tx.amount)
               THEN Performed(sm, addTransactionOutput(outs, h,
                        Status("NotEnoughBalance", "ContractCreation", tx.fee, NoMessage)), FALSE)
               ELSE LET tm2 == tryTransferMoney(tm1, tx.from, contract_address, tx.amount)
                    IN IF vm.status = "SUCCESS"
                       THEN commitVm(setRuntimeCode(tm2, contract_address, vm.output),
                                     outs, h, tx, block, vm, "ContractCreation", contract_address)
                       ELSE IF vm.status = "REVERT"
                       THEN chargeCanonical(sm, outs, h, tx, block, vm, "Revert", "ContractCreation")
                       ELSE chargeCanonical(sm, outs, h, tx, block, vm, "BadQueryForm",
                                            "ContractCreation")

performContractCall(sm, tm, outs, h, tx, block, vm) ==
    IF tx.data = NoData
    THEN Performed(sm, addTransactionOutput(outs, h,
             Status("BadQueryForm", "ContractCall", tx.fee, NoMessage)), FALSE)
    ELSE IF tx.amount > 0 /\ ~canTransferMoney(tm, tx.from, tx.to, tx.amount)
    THEN Performed(sm, addTransactionOutput(outs, h,
             Status("NotEnoughBalance", "ContractCall", tx.fee, NoMessage)), FALSE)
    ELSE LET tm1 == IF tx.amount > 0 THEN tryTransferMoney(tm, tx.from, tx.to, tx.amount) ELSE tm
         IN IF vm.status = "SUCCESS"
            THEN commitVm(tm1, outs, h, tx, block, vm, "ContractCall", vm.output)
            ELSE IF vm.status = "REVERT"
            THEN chargeCanonical(sm, outs, h, tx, block, vm, "Revert", "ContractCall")
            ELSE chargeCanonical(sm, outs, h, tx, block, vm, "BadQueryForm", "ContractCall")

MutTransferNoFeeCredit(sm, tm, outs, h, tx, block) ==
    IF ~canTransferMoney(tm, tx.from, tx.to, tx.amount)
    THEN Performed(sm, addTransactionOutput(outs, h,
             Status("NotEnoughBalance", "Transfer", tx.fee, NoMessage)), FALSE)
    ELSE Performed(tryTransferMoney(tm, tx.from, tx.to, tx.amount),
                   addTransactionOutput(outs, h, Status("Success", "Transfer", 0, NoMessage)),
                   FALSE)

performTransfer(sm, tm, outs, h, tx, block) ==
    IF ~canTransferMoney(tm, tx.from, tx.to, tx.amount)
    THEN Performed(sm, addTransactionOutput(outs, h,
             Status("NotEnoughBalance", "Transfer", tx.fee, NoMessage)), FALSE)
    ELSE Performed(
           addBalance(getAccount(tryTransferMoney(tm, tx.from, tx.to, tx.amount), block.coinbase),
                      block.coinbase, tx.fee),
           addTransactionOutput(outs, h, Status("Success", "Transfer", 0, NoMessage)),
           FALSE)

tryPerformTransaction(sm0, outs, tx, block, vm) ==
    LET h == hashOfTransaction(tx)
        \* line 306: the hash is recorded in the canonical sender account
        sm == addTransactionHash(getAccount(sm0, tx.from), tx.from, h)
    IN IF tx.to = NullAddress
       THEN performContractCreation(sm, outs, h, tx, block, vm)
       ELSE LET smTo == getAccount(sm, tx.to)       \* line 378, canonical
                tm0 == getAccount(sm, tx.from)      \* the copy taken at line 308
            IN IF ~canSubBalance(tm0, tx.from, tx.fee)
               THEN Performed(smTo, outs, TRUE)     \* line 380 is outside the try blocks
               ELSE LET tm == getAccount(subBalance(tm0, tx.from, tx.fee), tx.to)
                    IN IF tm[tx.to].type = "CONTRACT"
                       THEN performContractCall(smTo, tm, outs, h, tx, block, vm)
                       ELSE performTransfer(smTo, tm, outs, h, tx, block)

\* Core::applyBlockTransactions from transaction i on: `vms[i]` is the VM's
\* result for the i-th transaction.  An error leaving tryPerformTransaction
\* ends the loop.
RECURSIVE performFrom(_, _, _, _, _)
performFrom(sm, outs, block, vms, i) ==
    IF i > Len(block.txs) THEN Performed(sm, outs, FALSE)
    ELSE LET r == tryPerformTransaction(sm, outs, block.txs[i], block, vms[i])
         IN IF r.threw THEN r ELSE performFrom(r.sm, r.outs, block, vms, i + 1)

MutApplyNoEmission(sm, outs, block, vms) ==
    performFrom(getAccount(sm, block.coinbase), outs, block, vms, 1)

\* Core::applyBlockTransactions.
applyBlockTransactions(sm, outs, block, vms) ==
    performFrom(addBalance(getAccount(sm, block.coinbase), block.coinbase, EMISSION_VALUE),
                outs, block, vms, 1)

(***************************************************************************)
(* Core.                                                                   *)
(***************************************************************************)
VARIABLES
    blockchain,            \* _blockchain: [db, by_depth]
    state_manager,         \* _state_manager
    pending_transactions,  \* _pending_transactions
    tx_outputs,            \* _tx_outputs
    subscribers,           \* the callbacks of _event_block_added and
                           \* _event_new_pending_transaction, in subscription order
    applied_log,           \* the block hashes applyBlockTransactions ran for, in order
    block_added_log,       \* the block hashes BlockAdded was published for, in order
    pc,                    \* "idle", or "done" when a call has returned
    last,                  \* the call that returned: operation, argument, result
                           \* and the events it delivered
    threads,               \* the threads inside Core::tryAddBlock
    blockchain_mutex       \* the holder of _blockchain_mutex, 0 if free

VARIABLES
    peer,                  \* the lk::Peer of the session with the remote node, with the
                           \* Protocol::State of that session
    remote,                \* the node at the other end: its chain and its lk::Peer
    network,               \* the messages in flight, network.here to this node and
                           \* network.there to the remote node
    connection,            \* the net::Connection under the session
    pending_transactions_mutex  \* _pending_transactions_mutex: the threads holding it
                                \* shared and the thread holding it exclusively

vars == <<blockchain, state_manager, pending_transactions, tx_outputs, subscribers,
          applied_log, block_added_log, pc, last, threads, blockchain_mutex,
          peer, remote, network, connection, pending_transactions_mutex>>

hostVars == <<peer, remote, network, connection, pending_transactions_mutex>>

coreVars == <<blockchain, state_manager, pending_transactions, tx_outputs, applied_log,
              block_added_log>>

Threads == {1, 2}

Broadcast == 0        \* the callback Core::Core subscribes: _host.broadcast
Callbacks == {1, 2}   \* callbacks other components subscribe

NoCall == [op |-> "none", arg |-> <<>>, ret |-> <<>>, deliveries |-> <<>>]

IdleThread == [pc |-> "idle", block |-> <<>>, ret |-> "none"]

MutNotifyReversed(subs, payload) ==
    [i \in 1..Len(subs) |-> <<subs[Len(subs) + 1 - i], payload>>]

\* Observable::notify: every callback is invoked, in subscription order.
notify(subs, payload) == [i \in 1..Len(subs) |-> <<subs[i], payload>>]

MutCheckBlockNoTimestamp(bc, sm, block) ==
    /\ Len(block.txs) # 0
    /\ Len(block.txs) <= BC_MAX_TRANSACTIONS_IN_BLOCK
    /\ findBlock(bc, hashOfBlock(block)) = {}
    /\ \A i \in 1..Len(block.txs) :
          /\ hasAccount(sm, block.txs[i].from)
          /\ calcCost(block.txs, block.txs[i].from) <= getBalance(sm, block.txs[i].from)

MutCheckBlockNoCount(bc, sm, block) ==
    /\ getTopBlock(bc).timestamp < block.timestamp
    /\ findBlock(bc, hashOfBlock(block)) = {}
    /\ \A i \in 1..Len(block.txs) :
          /\ hasAccount(sm, block.txs[i].from)
          /\ calcCost(block.txs, block.txs[i].from) <= getBalance(sm, block.txs[i].from)

\* Core::checkBlock.
checkBlock(bc, sm, block) ==
    /\ ~(getTopBlock(bc).timestamp >= block.timestamp)
    /\ ~(Len(block.txs) = 0 \/ Len(block.txs) > BC_MAX_TRANSACTIONS_IN_BLOCK)
    /\ findBlock(bc, hashOfBlock(block)) = {}
    /\ \A i \in 1..Len(block.txs) :
          /\ hasAccount(sm, block.txs[i].from)
          /\ ~(calcCost(block.txs, block.txs[i].from) > getBalance(sm, block.txs[i].from))

\* lk::MessageType::NOT_AVAILABLE.
NOT_AVAILABLE == "NOT_AVAILABLE"

\* A lk::Peer as its constructor leaves it, with the Protocol::State of its
\* session: `others` are the PeerBase::Info of the other peers in the pool
\* and `checked_out` the endpoints handed to Host::checkOutPeer.
NewPeer(endpoint, is_attached_to_pool, others) ==
    [state |-> "JUST_ESTABLISHED", sync_blocks |-> <<>>, address |-> NullAddress,
     endpoint |-> endpoint,
     public_port |-> 0, is_attached_to_pool |-> is_attached_to_pool, others |-> others,
     checked_out |-> {}, last_processed |-> NOT_AVAILABLE,
     message_we_are_waiting_for |-> NOT_AVAILABLE]

\* A net::Connection as its constructor leaves it: `reading` and `writing`
\* count the outstanding async_read and async_write operations, `written`
\* lists the messages async_write was started for and `handled` those handed
\* to the receive handler.
NewConnection ==
    [is_closed |-> FALSE, socket_is_open |-> TRUE, is_receiving_enabled |-> FALSE,
     reading |-> 0, writing |-> 0, pending_send_messages |-> <<>>,
     sent |-> <<>>, written |-> <<>>]

\* std::shared_mutex, unlocked.
Unlocked == [shared |-> {}, unique |-> {}]

\* No session: the state of the networking side while Core is used alone.
HostInit ==
    /\ peer = NewPeer("there", FALSE, <<>>)
    /\ remote = <<>>
    /\ network = [here |-> <<>>, there |-> <<>>]
    /\ connection = NewConnection
    /\ pending_transactions_mutex = Unlocked

\* The state after Core::Core on a clean database: the genesis block is
\* stored, the genesis transaction seeds the balances, and the node's own
\* broadcast callbacks are subscribed.
InitCore ==
    /\ blockchain = blockchainAdd(EmptyChain, getGenesisBlock)
    /\ state_manager = updateFromGenesis(EmptyState, getGenesisBlock)
    /\ pending_transactions = <<>>
    /\ tx_outputs = {}
    /\ subscribers = [block |-> <<Broadcast>>, tx |-> <<Broadcast>>]
    /\ applied_log = <<>>
    /\ block_added_log = <<>>
    /\ pc = "idle"
    /\ last = NoCall
    /\ threads = [t \in Threads |-> IdleThread]
    /\ blockchain_mutex = 0

Init == InitCore /\ HostInit

(***************************************************************************)
(* Core::addPendingTransaction.                                            *)
(***************************************************************************)
Admission(status, outs, pool, published) ==
    [status |-> status, outs |-> outs, pool |-> pool, published |-> published]

\* The comparison of line 105.
pendingBalanceCheckFails(pending_cost, transaction_cost, current_account_balance) ==
    pending_cost + transaction_cost < current_account_balance

addPendingTransaction(bc, sm, pool, outs, tx) ==
    LET transaction_hash == hashOfTransaction(tx)
        transaction_cost == tx.amount + tx.fee
        stored(status) == addTransactionOutput(outs, transaction_hash, status)
        notEnough == Status("NotEnoughBalance", "None", 0, NoMessage)
        pendingStatus == Status("Pending", "None", tx.fee, NoMessage)
    IN IF ~checkSign(tx)
       THEN Admission(Status("BadSign", "None", tx.fee, NoMessage),
                      stored(Status("BadSign", "None", tx.fee, NoMessage)), pool, FALSE)
       ELSE IF findTransaction(bc, transaction_hash) # {}
       THEN Admission(getTransactionOutput(outs, transaction_hash), outs, pool, FALSE)
       ELSE IF setFind(pool, tx)
       THEN Admission(pendingStatus, stored(pendingStatus), pool, FALSE)
       ELSE IF /\ tx.from \in calcCostKeys(pool)
               /\ hasAccount(sm, tx.from)
               /\ pendingBalanceCheckFails(calcCost(pool, tx.from), transaction_cost,
                                           getBalance(sm, tx.from))
       THEN Admission(notEnough, stored(notEnough), pool, FALSE)
       ELSE IF ~checkTransaction(sm, tx)
       THEN Admission(notEnough, stored(notEnough), pool, FALSE)
       ELSE Admission(pendingStatus, stored(pendingStatus), setAdd(pool, tx), TRUE)

\* A call of Core::addPendingTransaction while the pool holds fewer than
\* `bound` transactions.
AddPendingTransactionUpTo(tx, bound) ==
    /\ pc = "idle"
    /\ Len(pending_transactions) < bound
    /\ LET r == addPendingTransaction(blockchain, state_manager, pending_transactions,
                                      tx_outputs, tx)
       IN /\ pending_transactions' = r.pool
          /\ tx_outputs' = r.outs
          /\ last' = [op |-> "addPendingTransaction", arg |-> tx, ret |-> r.status,
                      deliveries |-> IF r.published
                                     THEN notify(subscribers.tx, hashOfTransaction(tx))
                                     ELSE <<>>]
    /\ pc' = "done"
    /\ UNCHANGED <<blockchain, state_manager, subscribers, applied_log, block_added_log,
                   threads, blockchain_mutex>>
    /\ UNCHANGED hostVars

AddPendingTransaction(tx) == AddPendingTransactionUpTo(tx, MaxPending)

(***************************************************************************)
(* Core::tryAddBlock.                                                      *)
(***************************************************************************)
\* The duplicate-free sequences over S of length at most n.
RECURSIVE DistinctSeqs(_, _)
DistinctSeqs(S, n) ==
    IF n = 0 THEN {<<>>}
    ELSE LET shorter == DistinctSeqs(S, n - 1)
         IN shorter \cup
            UNION { {Append(q, x) : x \in S \ Range(q)} :
                    q \in {r \in shorter : Len(r) = n - 1} }

\* The blocks peers and miners offer: every depth and timestamp within the
\* bounds, the given links and the given transaction lists.
BlockCandidatesOver(prevs, txlists) ==
    { Block(d, p, t, Miner, txs) :
        d \in 1..MaxDepth,
        p \in prevs,
        t \in (GenesisTime + 1)..(GenesisTime + MaxTime),
        txs \in txlists }

StoredHashes == DOMAIN blockchain.db.block

\* Every link to a stored block or to nothing, and every duplicate-free
\* transaction list of up to one more than the maximum.
BlockCandidates ==
    BlockCandidatesOver(StoredHashes \cup {ZeroHash},
                        DistinctSeqs(BlockTxUniverse, BC_MAX_TRANSACTIONS_IN_BLOCK + 1))

\* Blocks on top of the chain carrying at most one signed transfer.
SimpleBlockCandidates ==
    BlockCandidatesOver({getTopBlockHash(blockchain)},
                        DistinctSeqs({Signed(H2), Signed(H5)}, 1))

VmChoices(b) == { vms \in [1..Len(b.txs) -> UNION {VmResults(b.txs[i]) : i \in 1..Len(b.txs)}] :
                    \A i \in 1..Len(b.txs) : vms[i] \in VmResults(b.txs[i]) }

MutTryAddBlockUnchecked(bc, sm, b) == TRUE

\* The condition of line 165.
coreAccepts(bc, sm, b) == checkBlock(bc, sm, b) /\ blockchainCanAdd(bc, b)

\* The part of Core::tryAddBlock under _blockchain_mutex after the block
\* was added to the chain, as the values of the variables after it.
Accepted(bc, sm, pool, outs, b, vms) ==
    LET r == applyBlockTransactions(sm, outs, b, vms)
    IN [bc |-> blockchainAdd(bc, b), pool |-> setRemove(pool, b.txs),
        sm |-> r.sm, outs |-> r.outs, threw |-> r.threw]

MutNotifyOnRejection(subs, b, ret) == notify(subs, hashOfBlock(b))

\* The event a call of tryAddBlock that returns `ret` publishes.
blockAddedDeliveries(subs, b, ret) ==
    IF ret = "true" THEN notify(subs, hashOfBlock(b)) ELSE <<>>

\* The whole of Core::tryAddBlock, by a single caller.
TryAddBlock(b) ==
    /\ pc = "idle"
    /\ pc' = "done"
    /\ UNCHANGED <<subscribers, threads, blockchain_mutex>>
    /\ IF coreAccepts(blockchain, state_manager, b)
       THEN \E vms \in VmChoices(b) :
              LET a == Accepted(blockchain, state_manager, pending_transactions, tx_outputs,
                                b, vms)
                  ret == IF a.threw THEN "threw" ELSE "true"
              IN /\ blockchain' = a.bc
                 /\ pending_transactions' = a.pool
                 /\ state_manager' = a.sm
                 /\ tx_outputs' = a.outs
                 /\ applied_log' = Append(applied_log, hashOfBlock(b))
                 /\ block_added_log' = IF a.threw THEN block_added_log
                                       ELSE Append(block_added_log, hashOfBlock(b))
                 /\ last' = [op |-> "tryAddBlock", arg |-> b, ret |-> ret,
                             deliveries |-> blockAddedDeliveries(subscribers.block, b, ret)]
       ELSE /\ last' = [op |-> "tryAddBlock", arg |-> b, ret |-> "false",
                        deliveries |-> blockAddedDeliveries(subscribers.block, b, "false")]
            /\ UNCHANGED coreVars
    /\ UNCHANGED hostVars

\* The caller takes the result.
Return ==
    /\ pc = "done"
    /\ pc' = "idle"
    /\ last' = NoCall
    /\ UNCHANGED <<coreVars, subscribers, threads, blockchain_mutex>>
    /\ UNCHANGED hostVars

\* Core::subscribeToBlockAddition.
SubscribeToBlockAddition(cb) ==
    /\ pc = "idle"
    /\ Len(subscribers.block) < MaxSubscribers
    /\ cb \notin Range(subscribers.block)
    /\ subscribers' = [subscribers EXCEPT !.block = Append(@, cb)]
    /\ UNCHANGED <<coreVars, pc, last, threads, blockchain_mutex>>
    /\ UNCHANGED hostVars

\* Core::subscribeToNewPendingTransaction.
SubscribeToNewPendingTransaction(cb) ==
    /\ pc = "idle"
    /\ Len(subscribers.tx) < MaxSubscribers
    /\ cb \notin Range(subscribers.tx)
    /\ subscribers' = [subscribers EXCEPT !.tx = Append(@, cb)]
    /\ UNCHANGED <<coreVars, pc, last, threads, blockchain_mutex>>
    /\ UNCHANGED hostVars

\* Blocks of every shape, the clients submitting two signed transfers.
Next ==
    \/ \E tx \in {Signed(H2), Signed(H5)} : AddPendingTransaction(tx)
    \/ \E b \in BlockCandidates : TryAddBlock(b)
    \/ Return

Spec == Init /\ [][Next]_vars

\* Transactions of every kind, the blocks extending the chain by a transfer.
NextPending ==
    \/ \E tx \in PendingTxUniverse : AddPendingTransaction(tx)
    \/ \E b \in SimpleBlockCandidates : TryAddBlock(b)
    \/ Return

SpecPending == Init /\ [][NextPending]_vars

\* Further subscribers to the two events, the blocks extending the chain by a
\* transfer.
NextEvents ==
    \/ \E tx \in {Signed(H2), Signed(H5)} : AddPendingTransaction(tx)
    \/ \E b \in SimpleBlockCandidates : TryAddBlock(b)
    \/ Return
    \/ \E cb \in Callbacks : SubscribeToBlockAddition(cb)
    \/ \E cb \in Callbacks : SubscribeToNewPendingTransaction(cb)

SpecEvents == Init /\ [][NextEvents]_vars

(***************************************************************************)
(* Core::tryAddBlock called by several threads: the statements of lines    *)
(* 163 to 181, one action per step another thread can observe.             *)
(***************************************************************************)
ConcurrentBlockCandidates ==
    BlockCandidatesOver({getTopBlockHash(blockchain)}, DistinctSeqs({Signed(H5)}, 1))

\* A thread enters Core::tryAddBlock.
ThreadCall(t, b) ==
    /\ threads[t].pc = "idle"
    /\ threads' = [threads EXCEPT ![t] = [pc |-> "lock", block |-> b, ret |-> "none"]]
    /\ UNCHANGED <<coreVars, subscribers, pc, last, blockchain_mutex>>
    /\ UNCHANGED hostVars

\* Line 163: std::unique_lock lk{ _blockchain_mutex }.
ThreadLock(t) ==
    /\ threads[t].pc = "lock"
    /\ blockchain_mutex = 0
    /\ blockchain_mutex' = t
    /\ threads' = [threads EXCEPT ![t].pc = "check"]
    /\ UNCHANGED <<coreVars, subscribers, pc, last>>
    /\ UNCHANGED hostVars

\* Line 165: the check and the append; a rejected block returns false and
\* the lock is released on the way out.
ThreadCheck(t) ==
    /\ threads[t].pc = "check"
    /\ IF coreAccepts(blockchain, state_manager, threads[t].block)
       THEN /\ blockchain' = blockchainAdd(blockchain, threads[t].block)
            /\ threads' = [threads EXCEPT ![t].pc = "apply"]
            /\ UNCHANGED blockchain_mutex
       ELSE /\ threads' = [threads EXCEPT ![t] = [IdleThread EXCEPT !.ret = "false"]]
            /\ blockchain_mutex' = 0
            /\ UNCHANGED blockchain
    /\ UNCHANGED <<state_manager, pending_transactions, tx_outputs, applied_log,
                   block_added_log, subscribers, pc, last>>
    /\ UNCHANGED hostVars

\* Lines 166 to 174: the pool is pruned, the block applied, the lock released.
ThreadApply(t) ==
    /\ threads[t].pc = "apply"
    /\ \E vms \in VmChoices(threads[t].block) :
          LET b == threads[t].block
              r == applyBlockTransactions(state_manager, tx_outputs, b, vms)
          IN /\ pending_transactions' = setRemove(pending_transactions, b.txs)
             /\ state_manager' = r.sm
             /\ tx_outputs' = r.outs
             /\ applied_log' = Append(applied_log, hashOfBlock(b))
             /\ threads' = [threads EXCEPT ![t] =
                                IF r.threw THEN [IdleThread EXCEPT !.ret = "threw"]
                                ELSE [@ EXCEPT !.pc = "notify"]]
    /\ blockchain_mutex' = 0
    /\ UNCHANGED <<blockchain, block_added_log, subscribers, pc, last>>
    /\ UNCHANGED hostVars

\* Lines 175 to 177: the event is published and the call returns true.
ThreadNotify(t) ==
    /\ threads[t].pc = "notify"
    /\ block_added_log' = Append(block_added_log, hashOfBlock(threads[t].block))
    /\ threads' = [threads EXCEPT ![t] = [IdleThread EXCEPT !.ret = "true"]]
    /\ UNCHANGED <<blockchain, state_manager, pending_transactions, tx_outputs, applied_log,
                   subscribers, pc, last, blockchain_mutex>>
    /\ UNCHANGED hostVars

NextConc ==
    \E t \in Threads :
        \/ \E b \in ConcurrentBlockCandidates : ThreadCall(t, b)
        \/ ThreadLock(t)
        \/ ThreadCheck(t)
        \/ ThreadApply(t)
        \/ ThreadNotify(t)

SpecConc == Init /\ [][NextConc]_vars

(***************************************************************************)
(* Properties of Core::addPendingTransaction.                              *)
(***************************************************************************)
\* The signature of tx verifies: it is present, it was made by the key the
\* sender's address derives from, and it is over the header of tx.
SignatureVerifies(tx) ==
    /\ ~tx.sign.null
    /\ tx.sign.pub = tx.from
    /\ tx.sign.hash = serializeHeader(tx)

\* tx is in a block of the chain.
InChain(tx) ==
    \E x \in StoredHashes :
        \E i \in 1..Len(blockchain.db.block[x].txs) :
            hashOfTransaction(blockchain.db.block[x].txs[i]) = hashOfTransaction(tx)

InPool(pool, tx) == \E i \in 1..Len(pool) : hashOfTransaction(pool[i]) = hashOfTransaction(tx)

\* What the transactions of `a` in the pool cost together.
PoolCost(pool, a) == costOf(pool, a)

BalanceOf(a) == IF hasAccount(state_manager, a) THEN state_manager[a].balance ELSE 0

\* The step is a call of addPendingTransaction returning.
IsAddPendingStep == pc = "idle" /\ last'.op = "addPendingTransaction"

\* The call of the step stored its verdict, inserted and published nothing.
AddPendingRejected ==
    /\ pending_transactions' = pending_transactions
    /\ last'.deliveries = <<>>
    /\ <<hashOfTransaction(last'.arg), last'.ret>> \in tx_outputs'

\* C1: addPendingTransaction(tx) checks, in this order, the signature, that
\* tx is not in the chain, that tx is not in the pool, that the pool cost of
\* the sender plus the cost of tx stays within the sender's balance, and
\* StateManager::checkTransaction; it returns the verdict of the first
\* failing check (BadSign, the stored status, Pending, NotEnoughBalance,
\* NotEnoughBalance), stores it under hash(tx), and neither inserts nor
\* publishes; tx is inserted and published only when all checks pass.
C1_AdmissionFollowsFirstFailingCheck ==
    [][IsAddPendingStep =>
        LET tx == last'.arg
            cost == tx.amount + tx.fee
        IN IF ~SignatureVerifies(tx)
           THEN last'.ret.code = "BadSign" /\ AddPendingRejected
           ELSE IF InChain(tx)
           THEN /\ <<hashOfTransaction(tx), last'.ret>> \in tx_outputs
                /\ AddPendingRejected
           ELSE IF InPool(pending_transactions, tx)
           THEN last'.ret.code = "Pending" /\ AddPendingRejected
           ELSE IF PoolCost(pending_transactions, tx.from) + cost > BalanceOf(tx.from)
           THEN last'.ret.code = "NotEnoughBalance" /\ AddPendingRejected
           ELSE IF BalanceOf(tx.from) < cost
           THEN last'.ret.code = "NotEnoughBalance" /\ AddPendingRejected
           ELSE TRUE]_vars

\* C2: every transaction in the pending pool has a signature that verifies
\* and a sender equal to the address of the signing public key, after any
\* sequence of addPendingTransaction and tryAddBlock calls.
C2_PooledTransactionsAreSigned ==
    \A i \in 1..Len(pending_transactions) : SignatureVerifies(pending_transactions[i])

\* The pool holds a transaction, a block was accepted, and a transaction
\* whose signature does not verify has just been turned away.
C2_Witness ==
    /\ Len(pending_transactions) >= 1
    /\ Len(block_added_log) >= 1
    /\ last.op = "addPendingTransaction"
    /\ last.arg \in BadTxs
    /\ last.ret.code = "BadSign"

\* C3: while no block is accepted, the transactions admitted one at a time
\* never cost a sender more, together, than the sender's balance.
C3_PoolNeverOverspends ==
    Len(applied_log) = 0 =>
        \A a \in Addresses : PoolCost(pending_transactions, a) <= BalanceOf(a)

(***************************************************************************)
(* Properties of Core::tryAddBlock.                                        *)
(***************************************************************************)
\* The step is a call of tryAddBlock returning.
IsTryAddBlockStep == pc = "idle" /\ last'.op = "tryAddBlock"

\* The stored block of the greatest depth.
TopBlock ==
    CHOOSE b \in {blockchain.db.block[x] : x \in StoredHashes} :
        \A x \in StoredHashes : blockchain.db.block[x].depth <= b.depth

\* What the transactions of block b sent by `a` cost together.
BlockCost(b, a) == costOf(b.txs, a)

\* The four conditions on an offered block, on the state before the call.
BlockAdmissible(b) ==
    /\ b.timestamp > TopBlock.timestamp
    /\ Len(b.txs) >= 1
    /\ Len(b.txs) <= BC_MAX_TRANSACTIONS_IN_BLOCK
    /\ hashOfBlock(b) \notin StoredHashes
    /\ \A i \in 1..Len(b.txs) : BalanceOf(b.txs[i].from) >= BlockCost(b, b.txs[i].from)

\* C4: tryAddBlock(b) returns true only if b's timestamp is greater than the
\* top block's, b has between 1 and BC_MAX_TRANSACTIONS_IN_BLOCK
\* transactions, hash(b) is not in the store, and every sender's balance
\* before the block covers the sender's transactions in b; if one of these
\* fails, b is rejected and nothing changes.
C4_AcceptedBlocksPassCheckBlock ==
    [][IsTryAddBlockStep =>
        /\ last'.ret = "true" => BlockAdmissible(last'.arg)
        /\ ~BlockAdmissible(last'.arg) => last'.ret = "false" /\ UNCHANGED coreVars]_vars

\* A block of two transactions was accepted.
C4_Witness ==
    /\ last.op = "tryAddBlock"
    /\ last.ret = "true"
    /\ Len(last.arg.txs) = BC_MAX_TRANSACTIONS_IN_BLOCK

\* C5: a block containing a transaction whose signature does not verify is
\* rejected by tryAddBlock, and none of its transactions is executed.
C5_BadSignatureBlockRejected ==
    [][IsTryAddBlockStep /\ (\E i \in 1..Len(last'.arg.txs) :
                                ~SignatureVerifies(last'.arg.txs[i])) =>
        /\ last'.ret = "false"
        /\ UNCHANGED <<blockchain, state_manager, tx_outputs>>]_vars

\* The chain as stored: the genesis block at depth 0, every other block one
\* deeper and strictly later than the stored block its prev_hash names, one
\* block per depth, and as many blocks above genesis as were accepted.
ChainLinked ==
    /\ blockchain.db.block[hashOfBlock(getGenesisBlock)].depth = 0
    /\ TopBlock.depth = Len(applied_log)
    /\ Cardinality(StoredHashes) = Len(applied_log) + 1
    /\ \A x \in StoredHashes :
          LET b == blockchain.db.block[x]
          IN b.depth > 0 =>
                /\ b.prev_hash \in StoredHashes
                /\ blockchain.db.block[b.prev_hash].depth + 1 = b.depth
                /\ blockchain.db.block[b.prev_hash].timestamp < b.timestamp

IsRepresentedBlockStep ==
    /\ IsTryAddBlockStep
    /\ hashOfBlock(last'.arg) \in Range(applied_log)

\* C7 as stated: offering an accepted block again returns true and leaves
\* the store, the accounts and the published events as they were.
C7_RepresentedBlockReturnsTrue ==
    [][IsRepresentedBlockStep =>
        /\ last'.ret = "true"
        /\ last'.deliveries = <<>>
        /\ UNCHANGED coreVars]_vars

\* C7 amended: offering an accepted block again returns false and leaves the
\* store, the accounts, the pool, the outputs and the published events as
\* they were: no second emission, no re-execution, no second BlockAdded.
C7_RepresentedBlockRejectedUnchanged ==
    [][IsRepresentedBlockStep =>
        /\ last'.ret = "false"
        /\ last'.deliveries = <<>>
        /\ UNCHANGED coreVars]_vars

\* An accepted block, with another block on top of it, was offered again.
C7_Witness ==
    /\ last.op = "tryAddBlock"
    /\ hashOfBlock(last.arg) \in Range(applied_log)
    /\ last.ret = "false"
    /\ hashOfBlock(last.arg) # hashOfBlock(TopBlock)

\* No value occurs twice in q.
NoDuplicates(q) == \A i, j \in 1..Len(q) : q[i] = q[j] => i = j

\* The fees of the stored blocks and an emission for each but genesis.
RECURSIVE FeesOf(_)
FeesOf(txs) == IF txs = <<>> THEN 0 ELSE Head(txs).fee + FeesOf(Tail(txs))

RECURSIVE RewardsOf(_)
RewardsOf(hs) ==
    IF hs = {} THEN 0
    ELSE LET x == CHOOSE y \in hs : TRUE
         IN (IF blockchain.db.block[x].depth = 0 THEN 0
             ELSE EMISSION_VALUE + FeesOf(blockchain.db.block[x].txs))
            + RewardsOf(hs \ {x})

\* C8: of concurrent tryAddBlock(b) invocations at most one appends b,
\* credits the emission, executes b's transactions and publishes BlockAdded.
C8_ConcurrentBlockAcceptedOnce ==
    /\ NoDuplicates(applied_log)
    /\ NoDuplicates(block_added_log)
    /\ \A t, u \in Threads :
          /\ threads[t].pc \in {"apply", "notify"}
          /\ threads[u].pc \in {"apply", "notify"}
          /\ hashOfBlock(threads[t].block) = hashOfBlock(threads[u].block)
          => t = u
    /\ BalanceOf(Miner) <= RewardsOf(StoredHashes)
    /\ (\A t \in Threads : threads[t].pc # "apply") =>
          BalanceOf(Miner) = RewardsOf(StoredHashes)

\* One thread has accepted b and is about to publish it while the other
\* holds the lock and checks the same b.
C8_Witness ==
    /\ threads[1].pc = "notify"
    /\ threads[2].pc = "check"
    /\ threads[1].block = threads[2].block

\* The deliveries of an event with payload h to the subscribers, in the
\* order they subscribed.
InSubscriptionOrder(subs, h) == [i \in 1..Len(subs) |-> <<subs[i], h>>]

\* C9: BlockAdded(b) is published only after b is stored, the emission
\* credited and every transaction of b executed; NewPendingTx(tx) only after
\* tx is in the pool; each event reaches the subscribers in the order they
\* subscribed; a rejected block or transaction publishes no event.
C9_EventsAfterCommitInOrder ==
    [][/\ IsTryAddBlockStep =>
            IF last'.ret = "true"
            THEN /\ hashOfBlock(last'.arg) \in DOMAIN blockchain'.db.block
                 /\ state_manager'[Miner].balance >= BalanceOf(Miner) + EMISSION_VALUE
                 /\ \A i \in 1..Len(last'.arg.txs) :
                       \E o \in tx_outputs' :
                           /\ o[1] = hashOfTransaction(last'.arg.txs[i])
                           /\ o[2].action # "None"
                 /\ last'.deliveries =
                        InSubscriptionOrder(subscribers.block, hashOfBlock(last'.arg))
                 /\ block_added_log' = Append(block_added_log, hashOfBlock(last'.arg))
            ELSE /\ last'.deliveries = <<>>
                 /\ block_added_log' = block_added_log
       /\ IsAddPendingStep =>
            IF pending_transactions' # pending_transactions
            THEN /\ InPool(pending_transactions', last'.arg)
                 /\ last'.deliveries =
                        InSubscriptionOrder(subscribers.tx, hashOfTransaction(last'.arg))
            ELSE last'.deliveries = <<>>]_vars

\* An accepted block was published to two subscribers.
C9_Witness ==
    /\ last.op = "tryAddBlock"
    /\ last.ret = "true"
    /\ Len(last.deliveries) = 2
    /\ last.deliveries[1][1] # last.deliveries[2][1]

DbOrphan == Block(MaxDepth + 1, hashOfBlock(Block(MaxDepth, ZeroHash, GenesisTime, Miner, <<>>)),
                  GenesisTime + 1, Miner, <<>>)

RECURSIVE DbChainFrom(_, _)
DbChainFrom(parent, n) ==
    IF n = 0 THEN {}
    ELSE LET b == Block(parent.depth + 1, hashOfBlock(parent), parent.timestamp + 1, Miner, <<>>)
         IN {b} \cup DbChainFrom(b, n - 1)

DbBlocks == {getGenesisBlock, DbOrphan} \cup DbChainFrom(getGenesisBlock, MaxDepth)

InitDb ==
    /\ blockchain = EmptyChain
    /\ state_manager = EmptyState
    /\ pending_transactions = <<>>
    /\ tx_outputs = {}
    /\ subscribers = [block |-> <<>>, tx |-> <<>>]
    /\ applied_log = <<>>
    /\ block_added_log = <<>>
    /\ pc = "idle"
    /\ last = NoCall
    /\ threads = [t \in Threads |-> IdleThread]
    /\ blockchain_mutex = 0
    /\ HostInit

\* DatabaseManager::addBlock(hash(b), b).
DbAddBlock(b) ==
    /\ pc = "idle"
    /\ pc' = "done"
    /\ blockchain' = [blockchain EXCEPT !.db = addBlock(@, hashOfBlock(b), b)]
    /\ last' = [op |-> "addBlock", arg |-> b, ret |-> <<>>, deliveries |-> <<>>]
    /\ UNCHANGED <<state_manager, pending_transactions, tx_outputs, subscribers, applied_log,
                   block_added_log, threads, blockchain_mutex>>
    /\ UNCHANGED hostVars

\* DatabaseManager::createAllBlockHashesList().
DbCreateAllBlockHashesList ==
    /\ pc = "idle"
    /\ pc' = "done"
    /\ last' = [op |-> "createAllBlockHashesList", arg |-> <<>>,
                ret |-> createAllBlockHashesList(blockchain.db), deliveries |-> <<>>]
    /\ UNCHANGED <<coreVars, subscribers, threads, blockchain_mutex>>
    /\ UNCHANGED hostVars

NextDb ==
    \/ \E b \in DbBlocks : DbAddBlock(b)
    \/ DbCreateAllBlockHashesList
    \/ Return

SpecDb == InitDb /\ [][NextDb]_vars

\* C11: a call of addBlock whose hash is already present writes nothing: the
\* stored bodies, the parent links, the persisted last_block_hash and the
\* cached last block hash are the same after the call as before it, also
\* when other blocks were added since the hash was first added.
C11_AddBlockIdempotent ==
    [][pc = "idle" /\ last'.op = "addBlock"
       /\ hashOfBlock(last'.arg) \in DOMAIN blockchain.db.block =>
            /\ blockchain'.db.block = blockchain.db.block
            /\ blockchain'.db.prev = blockchain.db.prev
            /\ blockchain'.db.last = blockchain.db.last
            /\ blockchain'.db.last_block_hash = blockchain.db.last_block_hash]_vars

\* addBlock has returned for a block that is no longer the last one added:
\* the call repeated an earlier one after another block was added.
C11_Witness ==
    /\ last.op = "addBlock"
    /\ hashOfBlock(last.arg) \in DOMAIN blockchain.db.block
    /\ blockchain.db.last_block_hash # hashOfBlock(last.arg)
    /\ blockchain.db.last # hashOfBlock(last.arg)

\* The hash reached from the last block hash by following k parent links;
\* ZeroHash once the walk is past genesis, <<>> past a missing link.
RECURSIVE Ancestor(_)
Ancestor(k) ==
    IF k = 0 THEN blockchain.db.last_block_hash
    ELSE LET h == Ancestor(k - 1)
         IN IF h = ZeroHash \/ h = <<>> THEN h
            ELSE IF h \in DOMAIN blockchain.db.prev THEN blockchain.db.prev[h]
            ELSE <<>>

\* C12: the walk from last_block_hash along the parent links terminates at
\* the all-zero hash and yields the hashes in genesis-to-top order, each
\* element's parent link being the element before it; if a parent link on
\* the way is missing the walk is fatal and returns no partial chain.
C12_RecoveryWalk ==
    last.op = "createAllBlockHashesList" =>
        LET n == Cardinality(DOMAIN blockchain.db.prev)
            hs == last.ret.hashes
        IN /\ last.ret.status # "diverges"
           /\ last.ret.status = "fatal" <=> Ancestor(n + 1) = <<>>
           /\ last.ret.status = "fatal" => hs = <<>>
           /\ last.ret.status = "returned" =>
                /\ Ancestor(Len(hs)) = ZeroHash
                /\ \A i \in 1..Len(hs) :
                      /\ hs[i] = Ancestor(Len(hs) - i)
                      /\ blockchain.db.prev[hs[i]] = (IF i = 1 THEN ZeroHash ELSE hs[i - 1])
                /\ hs # <<>> => hs[Len(hs)] = blockchain.db.last_block_hash

\* The walk met a block whose parent link is not stored.
C12_Witness ==
    /\ last.op = "createAllBlockHashesList"
    /\ last.ret.status = "fatal"
    /\ Cardinality(DOMAIN blockchain.db.prev) >= 2

\* The walk returned a chain of three blocks.
C12_ReturnedChain ==
    /\ last.op = "createAllBlockHashesList"
    /\ last.ret.status = "returned"
    /\ Len(last.ret.hashes) = MaxDepth + 1

(***************************************************************************)
(* Core::tryPerformTransaction applied once to a transaction, in a state   *)
(* and a block drawn from bounded sets.                                    *)
(***************************************************************************)
ExistingContract == ContractAddress(GenesisRecipient, InitCode)

ClientAccount(balance) ==
    [exists |-> TRUE, type |-> "CLIENT", balance |-> balance, txs |-> <<>>, code |-> NoData,
     storage |-> <<>>]

\* The states the executor starts from: the two key holders with some
\* balance, with or without a deployed contract.
ExecStates ==
    { [a \in Addresses |->
          IF a = GenesisRecipient THEN ClientAccount(g)
          ELSE IF a = UserA THEN ClientAccount(u)
          ELSE IF a = ExistingContract /\ c
          THEN [exists |-> TRUE, type |-> "CONTRACT", balance |-> 0, txs |-> <<>>,
                code |-> InitCode, storage |-> <<>>]
          ELSE NoAccount] :
        g \in 0..MaxBalance, u \in 0..1, c \in BOOLEAN }

\* The transactions executed: transfers, creations and calls.
ExecTxs ==
    { Signed(Header(from, to, amount, fee, data)) :
        from \in {GenesisRecipient, UserA},
        to \in {UserA, GenesisRecipient, NullAddress, ExistingContract},
        amount \in 0..MaxAmount,
        fee \in 0..MaxFee,
        data \in {NoData, InitCode} }

\* The blocks they are executed in: mined by a third party or by the sender.
ExecBlocks ==
    { Block(1, hashOfBlock(getGenesisBlock), GenesisTime + 1, coinbase, <<>>) :
        coinbase \in {Miner, GenesisRecipient} }

InitExec ==
    /\ blockchain = blockchainAdd(EmptyChain, getGenesisBlock)
    /\ state_manager \in ExecStates
    /\ pending_transactions = <<>>
    /\ tx_outputs = {}
    /\ subscribers = [block |-> <<>>, tx |-> <<>>]
    /\ applied_log = <<>>
    /\ block_added_log = <<>>
    /\ pc = "idle"
    /\ last = NoCall
    /\ threads = [t \in Threads |-> IdleThread]
    /\ blockchain_mutex = 0
    /\ HostInit

\* Core::tryPerformTransaction(tx, block_where_tx).
TryPerformTransaction(tx, block_where_tx, vm) ==
    /\ pc = "idle"
    /\ pc' = "done"
    /\ LET r == tryPerformTransaction(state_manager, tx_outputs, tx, block_where_tx, vm)
       IN /\ state_manager' = r.sm
          /\ tx_outputs' = r.outs
          /\ last' = [op |-> "tryPerformTransaction", arg |-> tx,
                      ret |-> [threw |-> r.threw, block |-> block_where_tx, vm |-> vm],
                      deliveries |-> <<>>]
    /\ UNCHANGED <<blockchain, pending_transactions, subscribers, applied_log, block_added_log,
                   threads, blockchain_mutex>>
    /\ UNCHANGED hostVars

NextExec ==
    \E tx \in ExecTxs, b \in ExecBlocks :
        \E vm \in VmResults(tx) : TryPerformTransaction(tx, b, vm)

SpecExec == InitExec /\ [][NextExec]_vars

\* The step is an execution of a transaction.
IsExecStep == pc = "idle" /\ last'.op = "tryPerformTransaction"

\* The execution of the step is a transfer to an address that is no contract.
IsPlainTransferStep ==
    /\ IsExecStep
    /\ last'.arg.to # NullAddress
    /\ state_manager[last'.arg.to].type # "CONTRACT"

\* 1 if the addresses are the same, else 0.
Is(a, b) == IF a = b THEN 1 ELSE 0

\* The execution of the step stored this status code and action for tx.
StoredCodeAction(code, action) ==
    \E o \in tx_outputs' :
        /\ o[1] = hashOfTransaction(last'.arg)
        /\ o[2].code = code
        /\ o[2].action = action

\* C13: a plain transfer whose sender holds at least amount + fee ends with
\* Success/Transfer; the sender loses amount + fee, the recipient gains
\* amount, the coinbase of the block gains fee, no other balance changes.
C13_TransferMovesAmountAndFee ==
    [][IsPlainTransferStep
       /\ state_manager[last'.arg.from].balance >= last'.arg.amount + last'.arg.fee =>
            LET tx == last'.arg
                coinbase == last'.ret.block.coinbase
            IN /\ ~last'.ret.threw
               /\ StoredCodeAction("Success", "Transfer")
               /\ \A a \in Addresses :
                     state_manager'[a].balance =
                         state_manager[a].balance
                         - Is(a, tx.from) * (tx.amount + tx.fee)
                         + Is(a, tx.to) * tx.amount
                         + Is(a, coinbase) * tx.fee]_vars

\* A transfer with a fee to another account, in a block mined by a third
\* party, has succeeded.
C13_Witness ==
    /\ last.op = "tryPerformTransaction"
    /\ last.arg.to = UserA
    /\ last.arg.from = GenesisRecipient
    /\ last.arg.amount = MaxAmount
    /\ last.arg.fee = MaxFee
    /\ last.ret.block.coinbase = Miner
    /\ state_manager[Miner].balance = MaxFee
    /\ <<hashOfTransaction(last.arg), Status("Success", "Transfer", 0, NoMessage)>> \in tx_outputs

\* C14: a plain transfer whose sender holds less than amount + fee stores
\* NotEnoughBalance/Transfer and leaves every balance as it was.
C14_OverdraftRejected ==
    [][IsPlainTransferStep
       /\ state_manager[last'.arg.from].balance < last'.arg.amount + last'.arg.fee =>
            /\ ~last'.ret.threw
            /\ StoredCodeAction("NotEnoughBalance", "Transfer")
            /\ \A a \in Addresses : state_manager'[a].balance = state_manager[a].balance]_vars

\* The execution of the step stored a status with this code for tx.
StoredCode(code) ==
    \E o \in tx_outputs' : o[1] = hashOfTransaction(last'.arg) /\ o[2].code = code

\* C15: when the execution of a transaction ends in NotEnoughBalance,
\* BadQueryForm or Failed, the canonical state after the call is the state
\* before it: the same accounts, balances, code and lists of sent
\* transaction hashes.
C15_FailureLeavesStateUntouched ==
    [][IsExecStep /\ ~last'.ret.threw
       /\ (StoredCode("NotEnoughBalance") \/ StoredCode("BadQueryForm") \/ StoredCode("Failed")) =>
            state_manager' = state_manager]_vars

\* C16: when the VM returns REVERT for a creation or a call with fee f and
\* gas_left g, the sender's balance is lower by f - g, the coinbase's higher
\* by f - g, every other balance as before, and no contract account or code
\* of the snapshot is committed.
C16_RevertChargesUsedGas ==
    [][IsExecStep /\ StoredCode("Revert") =>
            LET tx == last'.arg
                coinbase == last'.ret.block.coinbase
                used == tx.fee - last'.ret.vm.gas_left
            IN \A a \in Addresses :
                  /\ state_manager'[a].balance =
                         state_manager[a].balance - Is(a, tx.from) * used + Is(a, coinbase) * used
                  /\ state_manager'[a].type = state_manager[a].type
                  /\ state_manager'[a].code = state_manager[a].code]_vars

\* The VM is run for the creation of the step and returns SUCCESS: the
\* sender can pay fee and amount and the derived address is free.
IsSuccessfulCreationStep ==
    /\ IsExecStep
    /\ last'.arg.to = NullAddress
    /\ state_manager[last'.arg.from].balance >= last'.arg.fee + last'.arg.amount
    /\ ~state_manager[ContractAddress(last'.arg.from, last'.arg.data)].exists
    /\ last'.ret.vm.status = "SUCCESS"

C19_ExecutionIsTotal ==
    [][IsExecStep =>
            /\ ~last'.ret.threw
            /\ \E o \in tx_outputs' : o[1] = hashOfTransaction(last'.arg)
            /\ state_manager[last'.arg.from].balance < last'.arg.fee =>
                  \E o \in tx_outputs' :
                      /\ o[1] = hashOfTransaction(last'.arg)
                      /\ o[2].code = "Failed"
                      /\ o[2].gas = 0]_vars

(***************************************************************************)
(* Core with contract creations in blocks: the creation HC, a transfer and *)
(* an unsigned transfer are submitted by clients and offered in blocks     *)
(* that extend the chain.                                                  *)
(***************************************************************************)
HC == Header(GenesisRecipient, NullAddress, 0, 1, InitCode)

ContractTxUniverse == {Signed(HC), Signed(H5), WithSign(H1, NullSign)}

ContractBlockCandidates ==
    BlockCandidatesOver({getTopBlockHash(blockchain)}, DistinctSeqs(ContractTxUniverse, 1))

NextContracts ==
    \/ \E tx \in ContractTxUniverse : AddPendingTransaction(tx)
    \/ \E b \in ContractBlockCandidates : TryAddBlock(b)
    \/ Return

SpecContracts == Init /\ [][NextContracts]_vars

\* The sum of the balances of all accounts.
RECURSIVE SumBalances(_, _)
SumBalances(sm, as) ==
    IF as = {} THEN 0
    ELSE LET a == CHOOSE x \in as : TRUE
         IN sm[a].balance + SumBalances(sm, as \ {a})

TotalBalance(sm) == SumBalances(sm, Addresses)

\* The fees of the transactions of txs whose stored status in outs is Revert.
RECURSIVE RevertedFees(_, _)
RevertedFees(txs, outs) ==
    IF txs = <<>> THEN 0
    ELSE (IF \E o \in outs : o[1] = hashOfTransaction(Head(txs)) /\ o[2].code = "Revert"
          THEN Head(txs).fee ELSE 0)
         + RevertedFees(Tail(txs), outs)

\* C17: applying an accepted block creates no funds but the emission and
\* destroys none but fees of reverted transactions: the sum of all balances
\* after the block is at most the sum before plus BC_EMISSION_VALUE, and at
\* least that minus the fees of the block's reverted transactions.
C17_BlockConservesBalance ==
    [][IsTryAddBlockStep /\ last'.ret = "true" =>
            /\ TotalBalance(state_manager') <= TotalBalance(state_manager) + EMISSION_VALUE
            /\ TotalBalance(state_manager') >=
                   TotalBalance(state_manager) + EMISSION_VALUE
                   - RevertedFees(last'.arg.txs, tx_outputs')]_vars

\* The hashes of the transactions in the blocks above genesis.
ExecutedHashes ==
    UNION { {hashOfTransaction(blockchain.db.block[x].txs[i]) :
                i \in 1..Len(blockchain.db.block[x].txs)} :
            x \in {y \in StoredHashes : blockchain.db.block[y].depth > 0} }

\* C20: once a transaction was executed in an accepted block with status S,
\* no later operation replaces the status stored under its hash, and a later
\* addPendingTransaction of the transaction returns S.
C20_VerdictIsStable ==
    [][/\ \A o \in tx_outputs : o[1] \in ExecutedHashes => o \in tx_outputs'
       /\ IsAddPendingStep /\ hashOfTransaction(last'.arg) \in ExecutedHashes =>
             <<hashOfTransaction(last'.arg), last'.ret>> \in tx_outputs]_vars

(***************************************************************************)
(* Core::getMiningData.                                                    *)
(***************************************************************************)
\* The lexicographic order on hashes.
RECURSIVE LexLess(_, _)
LexLess(a, b) ==
    IF b = <<>> THEN FALSE
    ELSE IF a = <<>> THEN TRUE
    ELSE IF Head(a) # Head(b) THEN Head(a) < Head(b)
    ELSE LexLess(Tail(a), Tail(b))

\* The order of TransactionsSet::selectBestByFee: the higher fee first, then
\* the lower timestamp, then the lower hash.
betterByFee(x, y) ==
    \/ x.fee > y.fee
    \/ x.fee = y.fee /\ x.timestamp < y.timestamp
    \/ /\ x.fee = y.fee
       /\ x.timestamp = y.timestamp
       /\ LexLess(hashOfTransaction(x), hashOfTransaction(y))

\* TransactionsSet::selectBestByFee(n): the n best transactions are retained.
selectBestByFee(set, n) ==
    SelectSeq(set, LAMBDA t : Cardinality({u \in Range(set) : betterByFee(u, t)}) < n)

MutGetMiningDataUnselected(bc, pool, now) ==
    Block(getTopBlock(bc).depth + 1, hashOfBlock(getTopBlock(bc)), now, Miner, pool)

\* The block Core::getMiningData returns (the complexity of the pair is read
\* from the chain and is not part of the model).
getMiningData(bc, pool, now) ==
    LET top_block == getTopBlock(bc)
        depth == top_block.depth + 1
        prev_hash == hashOfBlock(top_block)
        pending == IF Len(pool) > BC_MAX_TRANSACTIONS_IN_BLOCK
                   THEN selectBestByFee(pool, BC_MAX_TRANSACTIONS_IN_BLOCK)
                   ELSE pool
    IN Block(depth, prev_hash, now, Miner, pending)

GetMiningData ==
    /\ pc = "idle"
    /\ \E now \in (GenesisTime + 1)..(GenesisTime + MaxTime) :
          last' = [op |-> "getMiningData", arg |-> <<>>,
                   ret |-> getMiningData(blockchain, pending_transactions, now),
                   deliveries |-> <<>>]
    /\ pc' = "done"
    /\ UNCHANGED <<coreVars, subscribers, threads, blockchain_mutex>>
    /\ UNCHANGED hostVars

\* A pool that may outgrow a block, the blocks extending the chain by a
\* transfer, and the miner asking for a candidate.
NextMining ==
    \/ \E tx \in {Signed(H1), Signed(H2), Signed(H3), Signed(H5)} : AddPendingTransactionUpTo(tx, MaxPool)
    \/ \E b \in SimpleBlockCandidates : TryAddBlock(b)
    \/ GetMiningData
    \/ Return

SpecMining == Init /\ [][NextMining]_vars

IsGetMiningDataStep == pc = "idle" /\ pc' = "done" /\ last'.op = "getMiningData"

\* C21: get_mining_data returns a block at depth top.depth + 1 whose
\* prev_hash is the hash of the top block and whose coinbase is this node's
\* address, holding at most BC_MAX_TRANSACTIONS_IN_BLOCK transactions, each of
\* them in the pending pool; the pool, the chain and the account state are
\* left as they were.
C21_MiningDataCandidate ==
    [][IsGetMiningDataStep =>
         /\ last'.ret.depth = TopBlock.depth + 1
         /\ last'.ret.prev_hash = hashOfBlock(TopBlock)
         /\ last'.ret.coinbase = Miner
         /\ Len(last'.ret.txs) <= BC_MAX_TRANSACTIONS_IN_BLOCK
         /\ \A i \in 1..Len(last'.ret.txs) : InPool(pending_transactions', last'.ret.txs[i])
         /\ NoDuplicates(last'.ret.txs)
         /\ UNCHANGED <<pending_transactions, blockchain, state_manager>>]_vars

\* A candidate was cut from a pool larger than a block, on a chain that has
\* grown beyond genesis.
C21_Witness ==
    /\ last.op = "getMiningData"
    /\ Len(pending_transactions) > BC_MAX_TRANSACTIONS_IN_BLOCK
    /\ Len(last.ret.txs) = BC_MAX_TRANSACTIONS_IN_BLOCK
    /\ last.ret.depth > 1

(***************************************************************************)
(* Protocol: the messages of a session and their handlers.  A message on   *)
(* the wire is its type followed by its arguments in serialization order.  *)
(* The blocks sessions carry hold plain transfers, which run no VM.        *)
(***************************************************************************)
prepareMessage(type, args) == <<type>> \o args

\* The message classes MessageProcessor::process hands to runHandle, in
\* order (lines 92 to 103).
DispatchedMessages ==
    <<"AcceptedMessage", "AcceptedResponseMessage", "PingMessage", "PongMessage",
      "TransactionMessage", "GetBlockMessage", "BlockMessage", "BlockNotFoundMessage",
      "GetInfoMessage", "InfoMessage", "NewNodeMessage", "CloseMessage">>

\* M::getHandledMessageType of each message class.
getHandledMessageType(M) ==
    CASE M = "CannotAcceptMessage" -> "CANNOT_ACCEPT"
      [] M = "AcceptedMessage" -> "ACCEPTED"
      [] M = "AcceptedResponseMessage" -> "ACCEPTED_RESPONSE"
      [] M = "PingMessage" -> "PING"
      [] M = "PongMessage" -> "PONG"
      [] M = "LookupMessage" -> "LOOKUP"
      [] M = "LookupResponseMessage" -> "LOOKUP"
      [] M = "TransactionMessage" -> "TRANSACTION"
      [] M = "GetBlockMessage" -> "GET_BLOCK"
      [] M = "BlockMessage" -> "BLOCK"
      [] M = "BlockNotFoundMessage" -> "BLOCK_NOT_FOUND"
      [] M = "GetInfoMessage" -> "GET_INFO"
      [] M = "InfoMessage" -> "INFO"
      [] M = "NewNodeMessage" -> "INFO"
      [] M = "CloseMessage" -> "CLOSE"

\* The types for which runHandleImpl finds a class in the list.
HandledTypes ==
    {getHandledMessageType(DispatchedMessages[i]) : i \in 1..Len(DispatchedMessages)}

\* The class runHandleImpl stops at for a type: the first of the list whose
\* handled type it is.
HandlingMessage(mt) ==
    DispatchedMessages[CHOOSE i \in 1..Len(DispatchedMessages) :
                          /\ getHandledMessageType(DispatchedMessages[i]) = mt
                          /\ \A j \in 1..(i - 1) :
                                getHandledMessageType(DispatchedMessages[j]) # mt]

\* lk::MessageType.
MessageTypes ==
    {"CANNOT_ACCEPT", "ACCEPTED", "ACCEPTED_RESPONSE", "PING", "PONG", "LOOKUP",
     "LOOKUP_RESPONSE", "TRANSACTION", "GET_BLOCK", "BLOCK", "BLOCK_NOT_FOUND", "GET_INFO",
     "INFO", "NEW_NODE", "CLOSE"}

\* The number of values M::deserialize reads after the type.
FieldsRead(type) ==
    CASE type \in {"ACCEPTED", "ACCEPTED_RESPONSE"} -> 4
      [] type \in {"INFO", "NEW_NODE", "CANNOT_ACCEPT"} -> 2
      [] type \in {"TRANSACTION", "GET_BLOCK", "BLOCK", "BLOCK_NOT_FOUND"} -> 1
      [] OTHER -> 0

Info(endpoint, address) == [endpoint |-> endpoint, address |-> address]

\* A node's Core as a value.
CoreOf(bc, sm, pool, outs, applied, added, address) ==
    [bc |-> bc, sm |-> sm, pool |-> pool, outs |-> outs, applied |-> applied,
     added |-> added, this_node_address |-> address]

\* What a handler leaves behind: the node's core, the peer, the messages
\* sent to the peer in order, and whether an error left the handler.
Outcome(core, pr, sends, threw) ==
    [core |-> core, peer |-> pr, sends |-> sends, threw |-> threw]

PlainVms(b) == [i \in 1..Len(b.txs) |-> NoVm]

\* The element of a one-element set: Only({e(x) : x \in {v}}) is e(v), with v
\* computed once.
Only(S) == CHOOSE x \in S : TRUE

\* Core::tryAddBlock on a core value.
coreTryAddBlock(core, b) ==
    IF coreAccepts(core.bc, core.sm, b)
    THEN Only({ [core |-> [core EXCEPT !.bc = a.bc, !.sm = a.sm, !.pool = a.pool,
                                      !.outs = a.outs, !.applied = Append(@, h),
                                      !.added = IF a.threw THEN @ ELSE Append(@, h)],
                 ret |-> IF a.threw THEN "threw" ELSE "true"] :
                a \in {Accepted(core.bc, core.sm, core.pool, core.outs, b, PlainVms(b))},
                h \in {hashOfBlock(b)} })
    ELSE [core |-> core, ret |-> "false"]

\* Host::allConnectedPeersInfo: the peers of the pool.
allConnectedPeersInfo(pr) ==
    (IF pr.is_attached_to_pool THEN <<Info(pr.endpoint, pr.address)>> ELSE <<>>) \o pr.others

\* The outcomes of erasing the end iterator of a vector.
UbOutcomes == {"unchanged", "crash"}

\* allPeersInfoExcept: the first entry with the address is erased; when
\* there is none the end iterator is erased, which is undefined.
allPeersInfoExcept(pr, address, ub) ==
    LET ret == allConnectedPeersInfo(pr)
        found == {i \in 1..Len(ret) : ret[i].address = address}
    IN IF found # {}
       THEN LET k == CHOOSE i \in found : \A j \in found : i <= j
            IN [ok |-> TRUE, infos |-> [i \in 1..(Len(ret) - 1) |->
                                          IF i < k THEN ret[i] ELSE ret[i + 1]]]
       ELSE [ok |-> ub = "unchanged", infos |-> ret]

\* Peer::addSyncBlock: the block is pushed to the front of the list.
addSyncBlock(sync_blocks, block) == <<block>> \o sync_blocks

\* Peer::applySyncs: the buffered blocks are handed to Core::tryAddBlock
\* from the front, the buffer is cleared and the peer is synchronised.
RECURSIVE applyFrom(_, _, _)
applyFrom(core, pr, blocks) ==
    IF blocks = <<>>
    THEN Outcome(core, [pr EXCEPT !.sync_blocks = <<>>, !.state = "SYNCHRONISED"], <<>>, FALSE)
    ELSE Only({ IF r.ret = "threw" THEN Outcome(r.core, pr, <<>>, TRUE)
                ELSE applyFrom(r.core, pr, Tail(blocks)) :
                r \in {coreTryAddBlock(core, Head(blocks))} })

applySyncs(core, pr) == applyFrom(core, pr, pr.sync_blocks)

\* The comparison of the two top blocks that ends AcceptedMessage::handle
\* (lines 218 to 243) and AcceptedResponseMessage::handle (lines 304 to 329).
reconcile(core, pr, sends, theirs_top_block) ==
    LET ours_top_block == getTopBlock(core.bc)
    IN IF theirs_top_block = ours_top_block
       THEN Outcome(core, [pr EXCEPT !.state = "SYNCHRONISED"], sends, FALSE)
       ELSE IF ours_top_block.depth > theirs_top_block.depth
       THEN Outcome(core, [pr EXCEPT !.state = "SYNCHRONISED"], sends, FALSE)
       ELSE IF getTopBlock(core.bc).depth + 1 = theirs_top_block.depth
       THEN Only({ IF r.ret = "threw" THEN Outcome(r.core, pr, sends, TRUE)
                   ELSE Outcome(r.core, [pr EXCEPT !.state = "SYNCHRONISED"], sends, FALSE) :
                   r \in {coreTryAddBlock(core, theirs_top_block)} })
       ELSE Outcome(core,
                    [pr EXCEPT !.state = "REQUESTED_BLOCKS",
                               !.sync_blocks = addSyncBlock(@, theirs_top_block)],
                    Append(sends, prepareMessage("GET_BLOCK", <<theirs_top_block.prev_hash>>)),
                    FALSE)

\* Lines 210 to 216 and 296 to 302: the advertised port becomes the peer's
\* server endpoint and the known peers are handed to Host::checkOutPeer.
noteGreeting(pr, public_port, known_peers) ==
    [pr EXCEPT !.public_port = IF public_port # 0 THEN public_port ELSE @,
               !.checked_out = @ \cup {known_peers[i].endpoint : i \in 1..Len(known_peers)}]

\* AcceptedMessage::handle.
handleAccepted(core, pr, m, ub) ==
    LET sample == allPeersInfoExcept(pr, pr.address, ub)
        response == prepareMessage("ACCEPTED_RESPONSE",
                                   <<getTopBlock(core.bc), core.this_node_address,
                                     pr.public_port, sample.infos>>)
    IN IF ~sample.ok THEN Outcome(core, pr, <<>>, TRUE)
       ELSE reconcile(core, noteGreeting(pr, m[4], m[5]), <<response>>, m[2])

\* AcceptedResponseMessage::handle.
handleAcceptedResponse(core, pr, m) ==
    reconcile(core, noteGreeting(pr, m[4], m[5]), <<>>, m[2])

\* TransactionMessage::handle.
handleTransaction(core, pr, m) ==
    Only({ Outcome([core EXCEPT !.pool = r.pool, !.outs = r.outs], pr, <<>>, FALSE) :
           r \in {addPendingTransaction(core.bc, core.sm, core.pool, core.outs, m[2])} })

MutGetBlockNeverFound(core, pr, m) ==
    Outcome(core, pr, <<prepareMessage("BLOCK_NOT_FOUND", <<m[2]>>)>>, FALSE)

\* GetBlockMessage::handle.
handleGetBlock(core, pr, m) ==
    LET block == findBlock(core.bc, m[2])
    IN IF block # {}
       THEN Outcome(core, pr, <<prepareMessage("BLOCK", <<CHOOSE b \in block : TRUE>>)>>, FALSE)
       ELSE Outcome(core, pr, <<prepareMessage("BLOCK_NOT_FOUND", <<m[2]>>)>>, FALSE)

\* BlockMessage::handle.
handleBlock(core, pr, m) ==
    IF pr.state = "SYNCHRONISED"
    THEN Only({ Outcome(r.core, pr, <<>>, r.ret = "threw") :
                r \in {coreTryAddBlock(core, m[2])} })
    ELSE LET block_depth == m[2].depth
             buffered == [pr EXCEPT !.sync_blocks = addSyncBlock(@, m[2])]
         IN IF block_depth = getTopBlock(core.bc).depth + 1
            THEN applySyncs(core, buffered)
            ELSE Outcome(core, buffered,
                         <<prepareMessage("GET_BLOCK",
                                          <<Head(buffered.sync_blocks).prev_hash>>)>>,
                         FALSE)

\* GetInfoMessage::handle.
handleGetInfo(core, pr, m, ub) ==
    LET sample == allPeersInfoExcept(pr, pr.address, ub)
    IN IF ~sample.ok THEN Outcome(core, pr, <<>>, TRUE)
       ELSE Outcome(core, pr,
                    <<prepareMessage("INFO", <<getTopBlock(core.bc), sample.infos>>)>>, FALSE)

\* NewNodeMessage::handle: the endpoint is checked out and broadcast to the
\* pool, of which the session's peer is a member when it is attached.
handleNewNode(core, pr, m) ==
    Outcome(core, [pr EXCEPT !.checked_out = @ \cup {m[2]}],
            IF pr.is_attached_to_pool
            THEN <<prepareMessage(getHandledMessageType("NewNodeMessage"), <<m[2]>>)>>
            ELSE <<>>,
            FALSE)

\* CannotAcceptMessage::handle.
handleCannotAccept(core, pr, m) ==
    Outcome(core,
            [pr EXCEPT !.is_attached_to_pool = FALSE,
                       !.checked_out = @ \cup {m[3][i].endpoint : i \in 1..Len(m[3])}],
            <<>>, FALSE)

\* runHandleImpl on a message of a dispatched type: the class found for the
\* type deserializes and handles it.
runHandleImpl(core, pr, m, ub) ==
    IF Len(m) # 1 + FieldsRead(m[1]) THEN Outcome(core, pr, <<>>, TRUE)
    ELSE Only({ CASE M = "AcceptedMessage" -> handleAccepted(core, pr, m, ub)
                  [] M = "AcceptedResponseMessage" -> handleAcceptedResponse(core, pr, m)
                  [] M = "TransactionMessage" -> handleTransaction(core, pr, m)
                  [] M = "GetBlockMessage" -> handleGetBlock(core, pr, m)
                  [] M = "BlockMessage" -> handleBlock(core, pr, m)
                  [] M = "GetInfoMessage" -> handleGetInfo(core, pr, m, ub)
                  [] M = "NewNodeMessage" -> handleNewNode(core, pr, m)
                  [] OTHER -> Outcome(core, pr, <<>>, FALSE) :
                M \in {HandlingMessage(m[1])} })

\* runHandle: last_processed is set when a handler has run to its end.
runHandle(core, pr, m, ub) ==
    Only({ IF r.threw THEN r ELSE [r EXCEPT !.peer.last_processed = m[1]] :
           r \in {runHandleImpl(core, pr, m, ub)} })

\* MessageProcessor::process, which is all of Protocol::onReceive.
process(core, pr, raw_message, ub) ==
    IF raw_message = <<>> THEN Outcome(core, pr, <<>>, TRUE)
    ELSE LET type == raw_message[1]
             waiting_for == pr.message_we_are_waiting_for
         IN IF waiting_for # NOT_AVAILABLE /\ waiting_for # type
            THEN Outcome(core, pr, <<>>, FALSE)
            ELSE IF type \in HandledTypes
            THEN runHandle(core, pr, raw_message, ub)
            ELSE Outcome(core, pr, <<>>, TRUE)

\* Protocol::startOnAcceptedPeer: Peer::tryAddToPool succeeds while the pool
\* has room for another peer.
startOnAcceptedPeer(core, pr, pool_size, ub) ==
    IF Len(pr.others) < pool_size
    THEN LET attached == [pr EXCEPT !.is_attached_to_pool = TRUE]
             sample == allPeersInfoExcept(attached, attached.address, ub)
         IN IF ~sample.ok THEN Outcome(core, attached, <<>>, TRUE)
            ELSE Outcome(core, attached,
                         <<prepareMessage("ACCEPTED",
                                          <<getTopBlock(core.bc), core.this_node_address,
                                            attached.public_port, sample.infos>>)>>,
                         FALSE)
    ELSE Outcome(core, pr,
                 <<prepareMessage("CANNOT_ACCEPT",
                                  <<"BUCKET_IS_FULL", allConnectedPeersInfo(pr)>>)>>,
                 FALSE)

\* This node's Core.
ThisCore ==
    CoreOf(blockchain, state_manager, pending_transactions, tx_outputs, applied_log,
           block_added_log, Miner)

\* The session of this node receives the next message in flight to it.
Receive ==
    /\ pc = "idle"
    /\ network.here # <<>>
    /\ \E ub \in UbOutcomes :
          LET m == Head(network.here)
          IN \E r \in {process(ThisCore, peer, m, ub)} :
             /\ blockchain' = r.core.bc
             /\ state_manager' = r.core.sm
             /\ pending_transactions' = r.core.pool
             /\ tx_outputs' = r.core.outs
             /\ applied_log' = r.core.applied
             /\ block_added_log' = r.core.added
             /\ peer' = r.peer
             /\ network' = [here |-> Tail(network.here), there |-> network.there \o r.sends]
             /\ last' = [op |-> "onReceive", arg |-> m,
                         ret |-> IF r.threw THEN "threw" ELSE "returned",
                         deliveries |-> r.sends]
    /\ UNCHANGED <<subscribers, pc, threads, blockchain_mutex, remote, connection,
                   pending_transactions_mutex>>

\* A message from the remote node reaches this node's socket.
Arrive(m) ==
    /\ pc = "idle"
    /\ network.here = <<>>
    /\ network' = [network EXCEPT !.here = <<m>>]
    /\ UNCHANGED <<coreVars, subscribers, pc, last, threads, blockchain_mutex, peer, remote,
                   connection, pending_transactions_mutex>>

(***************************************************************************)
(* The handshake at this node: the chain grows by local blocks, and the    *)
(* peer's greeting advertises any top block.                               *)
(***************************************************************************)
OtherPeer == Info("elsewhere", UserA)

\* A session with a peer that is in the pool next to one other peer.
InitSession ==
    /\ InitCore
    /\ peer = NewPeer("there", TRUE, <<OtherPeer>>)
    /\ remote = <<>>
    /\ network = [here |-> <<>>, there |-> <<>>]
    /\ connection = NewConnection
    /\ pending_transactions_mutex = Unlocked

\* The top blocks a peer may advertise: this node's own top, the genesis
\* block, and blocks of every depth on the top, on genesis and on nothing.
GreetingBlocks ==
    {getTopBlock(blockchain), getGenesisBlock} \cup
    BlockCandidatesOver({getTopBlockHash(blockchain), hashOfBlock(getGenesisBlock), ZeroHash},
                        {<<Signed(H5)>>})

Greetings ==
    { prepareMessage(type, <<b, UserA, port, known>>) :
        type \in {"ACCEPTED", "ACCEPTED_RESPONSE"}, b \in GreetingBlocks,
        port \in {0, 1}, known \in {<<>>, <<OtherPeer>>} }

\* The peer's greeting arrives, once per session.
Greet(m) ==
    /\ peer.state = "JUST_ESTABLISHED"
    /\ Arrive(m)

NextHandshake ==
    \/ \E b \in ConcurrentBlockCandidates : TryAddBlock(b)
    \/ Return
    \/ \E m \in Greetings : Greet(m)
    \/ Receive

SpecHandshake == InitSession /\ [][NextHandshake]_vars

IsReceiveStep == last'.op = "onReceive" /\ network.here # <<>> /\ network'.here = Tail(network.here)

IsGreetingStep ==
    /\ IsReceiveStep
    /\ last'.arg[1] \in {"ACCEPTED", "ACCEPTED_RESPONSE"}
    /\ last'.ret = "returned"

SendsGetBlock(sends) == \E i \in 1..Len(sends) : sends[i][1] = "GET_BLOCK"

\* C22: a node that handles the peer's greeting sets the peer SYNCHRONISED
\* and sends no GET_BLOCK when the advertised top block equals its own; it
\* enters REQUESTED_BLOCKS only when its own top is strictly less deep than
\* the peer's, and then sends GET_BLOCK for the prev_hash of the peer's top
\* and buffers that block; a node that is not behind never enters
\* REQUESTED_BLOCKS.
C22_HandshakeOutcome ==
    [][IsGreetingStep =>
         LET ours == getTopBlock(blockchain)
             theirs == last'.arg[2]
         IN /\ theirs = ours =>
                  peer'.state = "SYNCHRONISED" /\ ~SendsGetBlock(last'.deliveries)
            /\ peer'.state = "REQUESTED_BLOCKS" =>
                  /\ ours.depth < theirs.depth
                  /\ \E i \in 1..Len(last'.deliveries) :
                        last'.deliveries[i] = prepareMessage("GET_BLOCK", <<theirs.prev_hash>>)
                  /\ peer'.sync_blocks = <<theirs>>
            /\ ours.depth >= theirs.depth => peer'.state # "REQUESTED_BLOCKS"]_vars

(***************************************************************************)
(* Two nodes: this node has connected to the remote node, whose chain      *)
(* extends this node's chain.                                              *)
(***************************************************************************)
RemoteAddress == UserA

\* A node's Core after construction, as a value.
NewCore(address) ==
    CoreOf(blockchainAdd(EmptyChain, getGenesisBlock),
           updateFromGenesis(EmptyState, getGenesisBlock), <<>>, {}, <<>>, <<>>, address)

\* Blocks a miner builds one on the other from the genesis block, block i
\* carrying the transfer txs[i], dts[i] later than its parent.
RECURSIVE ChainOf(_, _, _)
ChainOf(txs, dts, n) ==
    IF n = 0 THEN <<>>
    ELSE LET shorter == ChainOf(txs, dts, n - 1)
             parent == IF n = 1 THEN getGenesisBlock ELSE shorter[n - 1]
         IN Append(shorter, Block(parent.depth + 1, hashOfBlock(parent),
                                  parent.timestamp + dts[n], Miner, <<txs[n]>>))

\* The core after Core::tryAddBlock on the first n blocks of a chain.
RECURSIVE Grown(_, _, _)
Grown(core, chain, n) ==
    IF n = 0 THEN core
    ELSE coreTryAddBlock(Grown(core, chain, n - 1), chain[n]).core

\* A pool of MaxPeers other peers.
FullPool == [i \in 1..MaxPeers |-> OtherPeer]

\* The remote node has accepted the connection of this node and has not yet
\* started the session; this node holds the first d blocks of the remote
\* node's chain.
InitTwoNodes(others) ==
    /\ \E txs \in [1..MaxDepth -> {Signed(H5), Signed(H2)}], dts \in [1..MaxDepth -> 1..MaxTime] :
         \E n \in 0..MaxDepth, d \in 0..MaxDepth :
           LET chain == ChainOf(txs, dts, MaxDepth)
               ours == Grown(NewCore(Miner), chain, d)
           IN /\ d <= n
              /\ blockchain = ours.bc
              /\ state_manager = ours.sm
              /\ pending_transactions = ours.pool
              /\ tx_outputs = ours.outs
              /\ applied_log = ours.applied
              /\ block_added_log = ours.added
              /\ remote = [core |-> Grown(NewCore(RemoteAddress), chain, n),
                           peer |-> NewPeer("here", FALSE, others), started |-> FALSE]
    /\ subscribers = [block |-> <<Broadcast>>, tx |-> <<Broadcast>>]
    /\ pc = "idle"
    /\ last = NoCall
    /\ threads = [t \in Threads |-> IdleThread]
    /\ blockchain_mutex = 0
    /\ peer = NewPeer("there", TRUE, <<>>)
    /\ network = [here |-> <<>>, there |-> <<>>]
    /\ connection = NewConnection
    /\ pending_transactions_mutex = Unlocked

\* The remote node's pool has room.
InitSync == InitTwoNodes(<<>>)

\* The remote node runs Protocol::peerAccepted for the new session.
RemoteStart ==
    /\ ~remote.started
    /\ \E ub \in UbOutcomes :
          \E r \in {startOnAcceptedPeer(remote.core, remote.peer, MaxPeers, ub)} :
             /\ remote' = [core |-> r.core, peer |-> r.peer, started |-> TRUE]
             /\ network' = [network EXCEPT !.here = @ \o r.sends]
    /\ UNCHANGED <<coreVars, subscribers, pc, last, threads, blockchain_mutex, peer,
                   connection, pending_transactions_mutex>>

\* The session of the remote node receives the next message in flight to it.
RemoteReceive ==
    /\ network.there # <<>>
    /\ \E ub \in UbOutcomes :
          \E r \in {process(remote.core, remote.peer, Head(network.there), ub)} :
             /\ remote' = [remote EXCEPT !.core = r.core, !.peer = r.peer]
             /\ network' = [here |-> network.here \o r.sends, there |-> Tail(network.there)]
    /\ UNCHANGED <<coreVars, subscribers, pc, last, threads, blockchain_mutex, peer,
                   connection, pending_transactions_mutex>>

NextSync ==
    \/ RemoteStart
    \/ Receive
    \/ RemoteReceive

SpecSync == InitSync /\ [][NextSync]_vars

\* Every message is eventually delivered and handled: the session starts,
\* and WF_vars(Receive) and WF_vars(RemoteReceive), written out with the
\* guard of each action in place of ENABLED.
SpecSyncFair ==
    /\ SpecSync
    /\ WF_vars(RemoteStart)
    /\ []<>(~(pc = "idle" /\ network.here # <<>>)) \/ []<><<Receive>>_vars
    /\ []<>(network.there = <<>>) \/ []<><<RemoteReceive>>_vars

OurDepth == getTopBlock(blockchain).depth
TheirDepth == getTopBlock(remote.core.bc).depth

\* The session is about to start and this node is two blocks or more behind.
BehindByTwo == ~remote.started /\ TheirDepth >= OurDepth + 2

\* This node has answered the greeting and asked for the parent of the
\* remote node's top block.
RequestedParents ==
    /\ peer.state = "REQUESTED_BLOCKS"
    /\ last.op = "onReceive"
    /\ last.arg[1] = "ACCEPTED"
    /\ Len(last.deliveries) = 2
    /\ last.deliveries[1][1] = "ACCEPTED_RESPONSE"
    /\ last.deliveries[2] =
         prepareMessage("GET_BLOCK", <<getTopBlock(remote.core.bc).prev_hash>>)

\* This node has applied the remote node's blocks in increasing depth order
\* and both nodes see the other as synchronised, on equal top blocks.
Synchronised ==
    /\ peer.state = "SYNCHRONISED"
    /\ remote.peer.state = "SYNCHRONISED"
    /\ getTopBlock(blockchain) = getTopBlock(remote.core.bc)
    /\ Len(applied_log) = TheirDepth
    /\ \A i \in 1..Len(applied_log) :
          findBlockHashByDepth(remote.core.bc, i) = {applied_log[i]}

InitRefusal == \E others \in {<<>>, FullPool} : InitTwoNodes(others)

SpecRefusal == InitRefusal /\ [][NextSync]_vars

IsRemoteStartStep == ~remote.started /\ remote'.started

Endpoints(infos) == {infos[i].endpoint : i \in 1..Len(infos)}

\* C24: when its pool is full the accepting side sends, instead of
\* ACCEPTED, CANNOT_ACCEPT with the reason and a sample of its known peers;
\* the connecting side that receives CANNOT_ACCEPT removes the peer from its
\* pool and tries every endpoint of the sample.
C24_RefusalWhenPoolFull ==
    [][/\ IsRemoteStartStep /\ Len(remote.peer.others) >= MaxPeers =>
             network'.here = <<prepareMessage("CANNOT_ACCEPT",
                                              <<"BUCKET_IS_FULL", remote.peer.others>>)>>
       /\ IsReceiveStep /\ last'.arg[1] = "CANNOT_ACCEPT" =>
             /\ ~peer'.is_attached_to_pool
             /\ Endpoints(last'.arg[3]) \subseteq peer'.checked_out]_vars

(***************************************************************************)
(* A session whose protocol instance awaits a message type, or none, and   *)
(* receives messages of every type.                                        *)
(***************************************************************************)
Awaiting(type) ==
    [NewPeer("there", TRUE, <<OtherPeer>>) EXCEPT !.message_we_are_waiting_for = type]

InitAwait ==
    /\ InitCore
    /\ \E type \in MessageTypes \cup {NOT_AVAILABLE} : peer = Awaiting(type)
    /\ remote = <<>>
    /\ network = [here |-> <<>>, there |-> <<>>]
    /\ connection = NewConnection
    /\ pending_transactions_mutex = Unlocked

\* One well-formed message of every type, several of the types that carry a
\* block.
Traffic ==
    {prepareMessage(type, <<b, UserA, 0, <<>>>>) :
        type \in {"ACCEPTED", "ACCEPTED_RESPONSE"}, b \in GreetingBlocks} \cup
    {prepareMessage(type, <<>>) : type \in {"PING", "PONG", "GET_INFO", "CLOSE", "LOOKUP",
                                            "LOOKUP_RESPONSE"}} \cup
    {prepareMessage("TRANSACTION", <<Signed(H5)>>)} \cup
    {prepareMessage(type, <<hashOfBlock(b)>>) :
        type \in {"GET_BLOCK", "BLOCK_NOT_FOUND"}, b \in {getGenesisBlock}} \cup
    {prepareMessage("BLOCK", <<b>>) : b \in GreetingBlocks} \cup
    {prepareMessage("INFO", <<getTopBlock(blockchain), <<OtherPeer>>>>),
     prepareMessage("NEW_NODE", <<"elsewhere", UserA>>),
     prepareMessage("CANNOT_ACCEPT", <<"BUCKET_IS_FULL", <<OtherPeer>>>>)}

\* A message arrives while the chain is short and no block is buffered.
Deliver(m) ==
    /\ OurDepth < MaxDepth
    /\ peer.sync_blocks = <<>>
    /\ network.there = <<>>
    /\ Arrive(m)

\* The remote node takes a message this node has sent.
Depart ==
    /\ network.there # <<>>
    /\ network' = [network EXCEPT !.there = Tail(@)]
    /\ UNCHANGED <<coreVars, subscribers, pc, last, threads, blockchain_mutex, peer, remote,
                   connection, pending_transactions_mutex>>

NextAwait ==
    \/ \E m \in Traffic : Deliver(m)
    \/ Receive
    \/ Depart

SpecAwait == InitAwait /\ [][NextAwait]_vars

\* C25: while message_we_are_waiting_for is a type T, a received message of
\* another type is ignored: no handler runs, nothing is sent, and the chain,
\* the pending pool, the peer state and last_processed stay as they are; when
\* nothing is awaited the message is handled and last_processed becomes its
\* type.
C25_AwaitedTypeOnly ==
    [][IsReceiveStep =>
         LET waiting_for == peer.message_we_are_waiting_for
             type == last'.arg[1]
         IN /\ waiting_for # NOT_AVAILABLE /\ waiting_for # type =>
                  /\ last'.ret = "returned"
                  /\ last'.deliveries = <<>>
                  /\ UNCHANGED <<coreVars, peer>>
            /\ waiting_for = NOT_AVAILABLE =>
                  /\ last'.ret = "returned"
                  /\ peer'.last_processed = type]_vars

(***************************************************************************)
(* net::Connection.  `reading` and `writing` count the async_read and      *)
(* async_write operations in flight; `sent` lists the arguments of send()  *)
(* in call order and `written` the messages of the async_write operations  *)
(* in the order they were started.                                         *)
(***************************************************************************)
MaxSends == 3

\* Connection::close.
close(c) == [c EXCEPT !.is_closed = TRUE, !.socket_is_open = FALSE]

\* Connection::sendPendingMessages: an async_write of the front message.
sendPendingMessages(c) ==
    IF c.pending_send_messages = <<>> THEN c
    ELSE [c EXCEPT !.writing = @ + 1, !.written = Append(@, Head(c.pending_send_messages))]

MutSendAlwaysWrites(c, data) ==
    sendPendingMessages([c EXCEPT !.pending_send_messages = Append(@, data),
                                  !.sent = Append(@, data)])

\* Connection::send(base::Bytes&&).
send(c, data) ==
    LET is_already_writing == c.pending_send_messages # <<>>
        pushed == [c EXCEPT !.pending_send_messages = Append(@, data),
                            !.sent = Append(@, data)]
    IN IF is_already_writing THEN pushed ELSE sendPendingMessages(pushed)

RECURSIVE sendAll(_, _)
sendAll(c, messages) ==
    IF messages = <<>> THEN c ELSE sendAll(send(c, Head(messages)), Tail(messages))

\* The completion handler of async_write.
writeCallback(c, ec) ==
    LET landed == [c EXCEPT !.writing = @ - 1]
    IN IF c.is_closed THEN landed
       ELSE sendPendingMessages([landed EXCEPT !.pending_send_messages = Tail(@)])

ErrorCodes == {"ok", "eof", "error"}

Landing(core, pr, c, sends, ret) ==
    [core |-> core, peer |-> pr, connection |-> c, sends |-> sends, ret |-> ret]

MutReceiveOneStopsOnThrow(core, pr, c, ec, data, ub) ==
    LET landed == [c EXCEPT !.reading = @ - 1]
    IN IF c.is_closed THEN Landing(core, pr, landed, <<>>, "closed")
       ELSE IF ec = "eof" THEN Landing(core, pr, close(landed), <<>>, "eof")
       ELSE IF ec # "ok" THEN Landing(core, pr, landed, <<>>, "error")
       ELSE IF ~c.is_receiving_enabled THEN Landing(core, pr, landed, <<>>, "disabled")
       ELSE LET r == process(core, pr, data, ub)
                replied == sendAll(landed, r.sends)
            IN Landing(r.core, r.peer,
                       IF r.threw THEN replied ELSE [replied EXCEPT !.reading = @ + 1],
                       r.sends, IF r.threw THEN "threw" ELSE "handled")

\* The completion handler of async_read in Connection::receiveOne; the
\* receive handler is Protocol::onReceive and its replies go to send().
receiveOneCallback(core, pr, c, ec, data, ub) ==
    LET landed == [c EXCEPT !.reading = @ - 1]
    IN IF c.is_closed THEN Landing(core, pr, landed, <<>>, "closed")
       ELSE IF ec = "eof" THEN Landing(core, pr, close(landed), <<>>, "eof")
       ELSE IF ec # "ok" THEN Landing(core, pr, landed, <<>>, "error")
       ELSE IF ~c.is_receiving_enabled THEN Landing(core, pr, landed, <<>>, "disabled")
       ELSE LET r == process(core, pr, data, ub)
                replied == sendAll(landed, r.sends)
            IN Landing(r.core, r.peer, [replied EXCEPT !.reading = @ + 1], r.sends,
                       IF r.threw THEN "threw" ELSE "handled")

connectionFrame == <<subscribers, pc, threads, blockchain_mutex, remote,
                     pending_transactions_mutex>>

\* Connection::startReceivingMessages.
StartReceivingMessages ==
    /\ ~connection.is_receiving_enabled
    /\ ~connection.is_closed
    /\ connection' = [connection EXCEPT !.is_receiving_enabled = TRUE, !.reading = @ + 1]
    /\ UNCHANGED <<coreVars, peer, network, last, connectionFrame>>

\* An async_read completes: with the bytes at the socket, with end of file,
\* with another error, or aborted because the socket was closed.
ReadCompletes(ec) ==
    /\ pc = "idle"
    /\ connection.reading > 0
    /\ connection.is_closed => ec = "error"
    /\ ec = "ok" => network.here # <<>>
    /\ \E ub \in UbOutcomes :
             LET data == IF ec = "ok" THEN Head(network.here) ELSE <<>>
             IN \E r \in {receiveOneCallback(ThisCore, peer, connection, ec, data, ub)} :
                /\ blockchain' = r.core.bc
                /\ state_manager' = r.core.sm
                /\ pending_transactions' = r.core.pool
                /\ tx_outputs' = r.core.outs
                /\ applied_log' = r.core.applied
                /\ block_added_log' = r.core.added
                /\ peer' = r.peer
                /\ connection' = r.connection
                /\ network' = IF ec = "ok" THEN [network EXCEPT !.here = Tail(@)] ELSE network
                /\ last' = [op |-> "receiveOne", arg |-> data, ret |-> r.ret,
                            deliveries |-> r.sends]
    /\ UNCHANGED connectionFrame

\* A call of Connection::send.
Send(data) ==
    /\ Len(connection.sent) < MaxSends
    /\ connection' = send(connection, data)
    /\ UNCHANGED <<coreVars, peer, network, last, connectionFrame>>

\* An async_write completes, with or without an error.
WriteCompletes(ec) ==
    /\ connection.writing > 0
    /\ connection.is_closed => ec = "error"
    /\ connection' = writeCallback(connection, ec)
    /\ last' = [op |-> "write", arg |-> Head(connection.pending_send_messages),
                ret |-> IF connection.is_closed THEN "closed" ELSE ec,
                deliveries |-> <<>>]
    /\ UNCHANGED <<coreVars, peer, network, connectionFrame>>

\* Peer::close: the local side closes the connection.
Close ==
    /\ ~connection.is_closed
    /\ connection' = close(connection)
    /\ UNCHANGED <<coreVars, peer, network, last, connectionFrame>>

\* The messages the remote side puts on the wire: packets that do not
\* decode, an unknown tag, and blocks and transactions the core accepts or
\* rejects.
Wire ==
    {<<>>, <<"BOGUS">>, <<"TRANSACTION">>, prepareMessage("GET_INFO", <<>>)} \cup
    {prepareMessage("TRANSACTION", <<tx>>) :
        tx \in {Signed(H5), Signed(H3), WithSign(H1, NullSign)}} \cup
    {prepareMessage("BLOCK", <<b>>) :
        b \in BlockCandidatesOver({getTopBlockHash(blockchain), ZeroHash}, {<<Signed(H5)>>})}

\* Bytes reach the socket while the logs of the model are short.
Incoming(data) ==
    /\ OurDepth < MaxDepth
    /\ peer.sync_blocks = <<>>
    /\ connection.pending_send_messages = <<>>
    /\ Len(connection.sent) < MaxSends
    /\ Arrive(data)

(***************************************************************************)
(* A session that receives valid and invalid messages over a connection    *)
(* without I/O errors.                                                     *)
(***************************************************************************)
InitReception ==
    /\ InitCore
    /\ \E state \in {"JUST_ESTABLISHED", "SYNCHRONISED"} :
          peer = [NewPeer("there", TRUE, <<OtherPeer>>) EXCEPT !.state = state]
    /\ remote = <<>>
    /\ network = [here |-> <<>>, there |-> <<>>]
    /\ connection = NewConnection
    /\ pending_transactions_mutex = Unlocked

NextReception ==
    \/ StartReceivingMessages
    \/ \E data \in Wire : Incoming(data)
    \/ ReadCompletes("ok")
    \/ WriteCompletes("ok")

SpecReception == InitReception /\ [][NextReception]_vars

IsReadStep ==
    /\ network.here # <<>>
    /\ network'.here = Tail(network.here)
    /\ last'.op = "receiveOne"

\* A message that fails validation in the state it is received in.
Rejected(data) ==
    \/ data = <<>>
    \/ /\ data # <<>>
       /\ \/ data[1] \notin MessageTypes
          \/ Len(data) # 1 + FieldsRead(data[1])
          \/ /\ data[1] = "BLOCK"
             /\ Len(data) = 2
             /\ ~coreAccepts(blockchain, state_manager, data[2])
          \/ /\ data[1] = "TRANSACTION"
             /\ Len(data) = 2
             /\ ~addPendingTransaction(blockchain, state_manager, pending_transactions,
                                       tx_outputs, data[2]).published

\* C26: a received message that fails validation (a packet or payload that
\* does not decode, an unknown tag, a block tryAddBlock rejects, a
\* transaction addPendingTransaction rejects) leaves the chain, the account
\* state and the pending pool unchanged, and the connection stays open with a
\* read in flight for the following message.
C26_InvalidMessageDropped ==
    [][IsReadStep /\ Rejected(last'.arg) =>
         /\ UNCHANGED <<blockchain, state_manager, pending_transactions>>
         /\ ~connection'.is_closed
         /\ connection'.is_receiving_enabled
         /\ connection'.reading = 1]_vars

C26_Witness ==
    /\ last.op = "receiveOne"
    /\ last.arg # <<>>
    /\ last.arg[1] = "BLOCK"
    /\ last.arg[2].prev_hash = ZeroHash
    /\ OurDepth >= 1
    /\ pending_transactions # <<>>
    /\ connection.reading = 1

(***************************************************************************)
(* A connection in use: messages are sent and received, reads and writes   *)
(* fail, the remote side and the local side close.                         *)
(***************************************************************************)
InitConnection ==
    /\ InitCore
    /\ peer = [NewPeer("there", TRUE, <<OtherPeer>>) EXCEPT !.state = "SYNCHRONISED"]
    /\ remote = <<>>
    /\ network = [here |-> <<>>, there |-> <<>>]
    /\ connection = NewConnection
    /\ pending_transactions_mutex = Unlocked

NextConnection ==
    \/ StartReceivingMessages
    \/ \E data \in {<<>>, prepareMessage("PING", <<>>), prepareMessage("GET_INFO", <<>>)} :
          Incoming(data)
    \/ \E ec \in ErrorCodes : ReadCompletes(ec)
    \/ \E data \in {prepareMessage("PING", <<>>), prepareMessage("PONG", <<>>)} : Send(data)
    \/ \E ec \in ErrorCodes \ {"eof"} : WriteCompletes(ec)
    \/ Close

SpecConnection == InitConnection /\ [][NextConnection]_vars

\* C27: at most one async_write is in flight on a connection, the next one
\* starts only after the previous one has completed, and the writes started
\* are the messages passed to send(), in call order, each once; while the
\* connection is open every message that has left the queue was written and
\* the front of the queue is being written.
C27_SendsAreFifo ==
    /\ connection.writing \in {0, 1}
    /\ Len(connection.written) <= Len(connection.sent)
    /\ connection.written = SubSeq(connection.sent, 1, Len(connection.written))
    /\ ~connection.is_closed =>
          /\ connection.writing = 1 <=> connection.pending_send_messages # <<>>
          /\ Len(connection.written) =
                Len(connection.sent) - Len(connection.pending_send_messages)
                   + connection.writing
          /\ connection.pending_send_messages =
                SubSeq(connection.sent,
                       Len(connection.sent) - Len(connection.pending_send_messages) + 1,
                       Len(connection.sent))

C27_Witness ==
    /\ ~connection.is_closed
    /\ Len(connection.sent) = MaxSends
    /\ connection.sent[1] # connection.sent[2]
    /\ Len(connection.pending_send_messages) = 2
    /\ Len(connection.written) = 2
    /\ connection.writing = 1

IsReadErrorStep ==
    /\ ~connection.is_closed
    /\ connection'.reading = connection.reading - 1
    /\ last'.op = "receiveOne"
    /\ last'.ret \in {"eof", "error"}

IsWriteErrorStep ==
    /\ ~connection.is_closed
    /\ connection.pending_send_messages # <<>>
    /\ connection'.pending_send_messages = Tail(connection.pending_send_messages)
    /\ last'.op = "write"
    /\ last'.ret = "error"

IsHandlerStep ==
    /\ IsReadStep
    /\ last'.ret \in {"handled", "threw"}

\* C28: a connection is active until the remote side closes, the local side
\* closes or a receive or send fails, and each of these closes it; a closed
\* connection stays closed and hands no message to the receive handler; an
\* open connection that has been told to receive has a read in flight.
C28_SessionLifecycle ==
    [][/\ IsReadErrorStep \/ IsWriteErrorStep => connection'.is_closed
       /\ connection.is_closed => connection'.is_closed /\ ~IsHandlerStep
       /\ ~connection'.is_closed /\ connection'.is_receiving_enabled =>
             connection'.reading >= 1]_vars

(***************************************************************************)
(* Core::addPendingTransaction, Core::tryAddBlock and Core::getMiningData  *)
(* on several threads, one step per lock operation and per access to       *)
(* _pending_transactions.  A thread holds the lock it took until the step  *)
(* that ends the access.                                                   *)
(***************************************************************************)
poolFrame == <<subscribers, pc, last, peer, remote, network, connection>>

\* std::shared_lock and std::unique_lock on a std::shared_mutex.
canLockShared(mutex) == mutex.unique = {}
MutLockUniqueNeverWaits(mutex) == TRUE
canLockUnique(mutex) == mutex.unique = {} /\ mutex.shared = {}
lockShared(mutex, t) == [mutex EXCEPT !.shared = @ \cup {t}]
lockUnique(mutex, t) == [mutex EXCEPT !.unique = @ \cup {t}]
unlock(mutex, t) == [shared |-> mutex.shared \ {t}, unique |-> mutex.unique \ {t}]

\* The threads inside an access that changes the pool, and inside one that
\* reads it.
Mutating(t) == threads[t].pc \in {"remove", "add"}
Reading(t) == threads[t].pc \in {"probe", "copy"}

\* What a read of the pool returns: the pool, or, torn by a removal in
\* progress on another thread, the pool without the transactions of that
\* thread's block.
PoolViews(t) ==
    {pending_transactions} \cup
    {setRemove(pending_transactions, threads[u].block.txs) :
        u \in {u \in Threads \ {t} : threads[u].pc = "remove"}}

\* Lines 62 to 86: a transaction with a bad signature or already in the
\* chain is answered without a look at the pool.
PoolAddCall(t, tx) ==
    /\ threads[t].pc = "idle"
    /\ LET r == addPendingTransaction(blockchain, state_manager, <<>>, tx_outputs, tx)
       IN IF ~checkSign(tx) \/ findTransaction(blockchain, hashOfTransaction(tx)) # {}
          THEN /\ tx_outputs' = r.outs
               /\ threads' = [threads EXCEPT ![t] = [IdleThread EXCEPT !.ret = r.status.code]]
          ELSE /\ threads' = [threads EXCEPT ![t] =
                                 [pc |-> "lock_shared", block |-> <<>>, ret |-> "none",
                                  tx |-> tx, view |-> <<>>]]
               /\ UNCHANGED tx_outputs
    /\ UNCHANGED <<blockchain, state_manager, pending_transactions, applied_log,
                   block_added_log, blockchain_mutex, pending_transactions_mutex, poolFrame>>

\* Line 90: std::shared_lock lk(_pending_transactions_mutex).
PoolAddLockShared(t) ==
    /\ threads[t].pc = "lock_shared"
    /\ canLockShared(pending_transactions_mutex)
    /\ pending_transactions_mutex' = lockShared(pending_transactions_mutex, t)
    /\ threads' = [threads EXCEPT ![t].pc = "probe"]
    /\ UNCHANGED <<coreVars, blockchain_mutex, poolFrame>>

\* Lines 91 to 100: find and calcCost read the pool, then the lock is
\* released.
PoolAddProbe(t) ==
    /\ threads[t].pc = "probe"
    /\ \E view \in PoolViews(t) :
          threads' = [threads EXCEPT ![t].pc = "decide", ![t].view = view]
    /\ pending_transactions_mutex' = unlock(pending_transactions_mutex, t)
    /\ UNCHANGED <<coreVars, blockchain_mutex, poolFrame>>

\* Lines 91 to 118 on what the probe saw: the answers that do not add.
\* The look into the chain of line 76 lies behind and is not repeated.
PoolAddCheck(t) ==
    /\ threads[t].pc = "decide"
    /\ LET r == addPendingTransaction(EmptyChain, state_manager, threads[t].view,
                                      tx_outputs, threads[t].tx)
       IN IF r.published
          THEN /\ threads' = [threads EXCEPT ![t].pc = "lock_unique"]
               /\ UNCHANGED tx_outputs
          ELSE /\ threads' = [threads EXCEPT ![t] = [IdleThread EXCEPT !.ret = r.status.code]]
               /\ tx_outputs' = r.outs
    /\ UNCHANGED <<blockchain, state_manager, pending_transactions, applied_log,
                   block_added_log, blockchain_mutex, pending_transactions_mutex, poolFrame>>

\* Line 122: std::unique_lock lk(_pending_transactions_mutex).
PoolAddLockUnique(t) ==
    /\ threads[t].pc = "lock_unique"
    /\ canLockUnique(pending_transactions_mutex)
    /\ pending_transactions_mutex' = lockUnique(pending_transactions_mutex, t)
    /\ threads' = [threads EXCEPT ![t].pc = "add"]
    /\ UNCHANGED <<coreVars, blockchain_mutex, poolFrame>>

\* Lines 123 to 131: the insertion, the unlock, the status.
PoolAdd(t) ==
    /\ threads[t].pc = "add"
    /\ pending_transactions' = setAdd(pending_transactions, threads[t].tx)
    /\ tx_outputs' = addTransactionOutput(tx_outputs, hashOfTransaction(threads[t].tx),
                                          Status("Pending", "None", threads[t].tx.fee,
                                                 NoMessage))
    /\ pending_transactions_mutex' = unlock(pending_transactions_mutex, t)
    /\ threads' = [threads EXCEPT ![t] = [IdleThread EXCEPT !.ret = "Pending"]]
    /\ UNCHANGED <<blockchain, state_manager, applied_log, block_added_log,
                   blockchain_mutex, poolFrame>>

\* Line 167 in Core::tryAddBlock: std::shared_lock on the pool's mutex.
ThreadLockShared(t) ==
    /\ threads[t].pc = "apply"
    /\ canLockShared(pending_transactions_mutex)
    /\ pending_transactions_mutex' = lockShared(pending_transactions_mutex, t)
    /\ threads' = [threads EXCEPT ![t].pc = "remove"]
    /\ UNCHANGED <<coreVars, blockchain_mutex, poolFrame>>

\* Lines 168 and 169: the block's transactions are removed from the pool.
ThreadRemove(t) ==
    /\ threads[t].pc = "remove"
    /\ pending_transactions' = setRemove(pending_transactions, threads[t].block.txs)
    /\ pending_transactions_mutex' = unlock(pending_transactions_mutex, t)
    /\ threads' = [threads EXCEPT ![t].pc = "applying"]
    /\ UNCHANGED <<blockchain, state_manager, tx_outputs, applied_log, block_added_log,
                   blockchain_mutex, poolFrame>>

\* Lines 173 and 174: the block is applied and _blockchain_mutex released.
ThreadApplyBlock(t) ==
    /\ threads[t].pc = "applying"
    /\ \E vms \in VmChoices(threads[t].block) :
          LET b == threads[t].block
              r == applyBlockTransactions(state_manager, tx_outputs, b, vms)
          IN /\ state_manager' = r.sm
             /\ tx_outputs' = r.outs
             /\ applied_log' = Append(applied_log, hashOfBlock(b))
             /\ threads' = [threads EXCEPT ![t] =
                                IF r.threw THEN [IdleThread EXCEPT !.ret = "threw"]
                                ELSE [@ EXCEPT !.pc = "notify"]]
    /\ blockchain_mutex' = 0
    /\ UNCHANGED <<blockchain, pending_transactions, block_added_log,
                   pending_transactions_mutex, poolFrame>>

\* Line 238 in Core::getMiningData: std::unique_lock on _blockchain_mutex.
MiningLock(t) ==
    /\ threads[t].pc = "idle"
    /\ blockchain_mutex = 0
    /\ blockchain_mutex' = t
    /\ threads' = [threads EXCEPT ![t] = [IdleThread EXCEPT !.pc = "mining"]]
    /\ UNCHANGED <<coreVars, pending_transactions_mutex, poolFrame>>

\* Line 249: std::shared_lock on the pool's mutex.
MiningLockShared(t) ==
    /\ threads[t].pc = "mining"
    /\ canLockShared(pending_transactions_mutex)
    /\ pending_transactions_mutex' = lockShared(pending_transactions_mutex, t)
    /\ threads' = [threads EXCEPT ![t].pc = "copy"]
    /\ UNCHANGED <<coreVars, blockchain_mutex, poolFrame>>

\* Lines 250 to 259: the pool is copied, both locks are released and the
\* candidate is returned.
MiningCopy(t) ==
    /\ threads[t].pc = "copy"
    /\ \E view \in PoolViews(t) :
          threads' = [threads EXCEPT ![t] =
                         [IdleThread EXCEPT !.ret =
                             getMiningData(blockchain, view,
                                           getTopBlock(blockchain).timestamp + 1)]]
    /\ pending_transactions_mutex' = unlock(pending_transactions_mutex, t)
    /\ blockchain_mutex' = 0
    /\ UNCHANGED <<coreVars, poolFrame>>

NextPool ==
    \E t \in Threads :
        \/ \E tx \in {Signed(H5), WithSign(H1, NullSign)} : PoolAddCall(t, tx)
        \/ PoolAddLockShared(t)
        \/ PoolAddProbe(t)
        \/ PoolAddCheck(t)
        \/ PoolAddLockUnique(t)
        \/ PoolAdd(t)
        \/ \E b \in ConcurrentBlockCandidates : ThreadCall(t, b)
        \/ ThreadLock(t)
        \/ ThreadCheck(t)
        \/ ThreadLockShared(t)
        \/ ThreadRemove(t)
        \/ ThreadApplyBlock(t)
        \/ ThreadNotify(t)
        \/ MiningLock(t)
        \/ MiningLockShared(t)
        \/ MiningCopy(t)

SpecPool == Init /\ [][NextPool]_vars

\* C29: in every interleaving of addPendingTransaction, tryAddBlock and
\* getMiningData on different threads, no thread reads or copies the pending
\* pool while another thread inserts into it or removes from it, and no two
\* threads change it at the same time.
C29_PoolLockProtects ==
    \A t, u \in Threads : t # u /\ Mutating(t) => ~Reading(u) /\ ~Mutating(u)

\* The thread is in Core::tryAddBlock with a block that holds tx and has
\* not yet passed the removal of line 168.
Removing(t, tx) ==
    /\ threads[t].pc \in {"apply", "remove"}
    /\ setFind(threads[t].block.txs, tx)

\* C33: no transaction is in the pending pool and in a block of the chain
\* at the same time, once the tryAddBlock call that stored the block has
\* passed its removal from the pool.
C33_PoolAndChainDisjoint ==
    \A i \in 1..Len(pending_transactions) :
       findTransaction(blockchain, hashOfTransaction(pending_transactions[i])) # {}
          => \E t \in Threads : Removing(t, pending_transactions[i])

(***************************************************************************)
(* Readers next to Core::tryAddBlock: Core::getTopBlock and                *)
(* Core::getAccountInfo take no lock and run at any moment.                *)
(***************************************************************************)
\* Core::getAccountInfo: the balance, zero for an unknown account.
getAccountInfo(sm, address) ==
    [address |-> address,
     balance |-> IF hasAccount(sm, address) THEN getBalance(sm, address) ELSE 0]

\* A call of Core::getTopBlock on a thread that is in no other call.
GetTopBlock(t) ==
    /\ threads[t].pc = "idle"
    /\ last' = [op |-> "getTopBlock", arg |-> <<>>, ret |-> getTopBlock(blockchain),
                deliveries |-> <<>>]
    /\ UNCHANGED <<coreVars, subscribers, pc, threads, blockchain_mutex>>
    /\ UNCHANGED hostVars

\* A call of Core::getAccountInfo on a thread that is in no other call.
GetAccountInfo(t, address) ==
    /\ threads[t].pc = "idle"
    /\ last' = [op |-> "getAccountInfo", arg |-> address,
                ret |-> getAccountInfo(state_manager, address), deliveries |-> <<>>]
    /\ UNCHANGED <<coreVars, subscribers, pc, threads, blockchain_mutex>>
    /\ UNCHANGED hostVars

NextReaders ==
    \/ NextConc
    \/ \E t \in Threads : GetTopBlock(t)
    \/ \E t \in Threads : GetAccountInfo(t, Miner)

SpecReaders == Init /\ [][NextReaders]_vars

\* The state of the accounts includes the emission and the transactions of
\* block b.
Applied(b) == b = getGenesisBlock \/ hashOfBlock(b) \in Range(applied_log)

\* C30: block acceptance is atomic for readers: a reader that has seen a
\* block as the top of the chain and then reads an account gets balances
\* that include that block's emission and transactions.
C30_AcceptanceAtomicForReaders ==
    [][last.op = "getTopBlock" /\ last'.op = "getAccountInfo" => Applied(last.ret)]_vars

(***************************************************************************)
(* lk::BalanceManager shared by several threads, as in the unit tests      *)
(* balance_manager_update_transaction_multithreads and                     *)
(* balance_manager_update_block_multithreads.  The manager is its map and  *)
(* the reader-writer lock that guards it; a thread reads the two balances  *)
(* of a transfer and writes them back in separate steps.                   *)
(***************************************************************************)
count_accounts == 3        \* accounts a thread cycles funds through
MaxRounds == 1             \* times a thread goes round its accounts
period == 2
transfer_tokens == 1
balance_each_person == 2
count_transaction == 2     \* transactions of a block

TransferAccounts == 0..(Cardinality(Threads) * count_accounts - 1)

\* The sender and the receiver of the i-th transfer of thread number
\* sequence_number.
sender_pos(sequence_number, i) ==
    sequence_number * count_accounts + ((i * period) % count_accounts)
receiver_pos(sequence_number, i) ==
    sequence_number * count_accounts + ((i * period + period) % count_accounts)

transferFrame == <<blockchain, pending_transactions, tx_outputs, applied_log, block_added_log,
                   subscribers, pc, last, blockchain_mutex>>

\* Threads 1 and 2 work on their own accounts or on the same ones, with
\* single transactions or with blocks.
InitTransfers ==
    /\ blockchain = blockchainAdd(EmptyChain, getGenesisBlock)
    /\ pending_transactions = <<>>
    /\ tx_outputs = {}
    /\ subscribers = [block |-> <<Broadcast>>, tx |-> <<Broadcast>>]
    /\ applied_log = <<>>
    /\ block_added_log = <<>>
    /\ pc = "idle"
    /\ last = NoCall
    /\ blockchain_mutex = 0
    /\ HostInit
    /\ state_manager \in
          { [map |-> [a \in TransferAccounts |->
                         [NoAccount EXCEPT !.exists = TRUE, !.balance = balance_each_person]],
             mutex |-> Unlocked] }
    /\ \E numbers \in [Threads -> 0..(Cardinality(Threads) - 1)], blocks \in BOOLEAN :
          threads = [t \in Threads |->
                        [pc |-> "update", block |-> <<>>, ret |-> "none", i |-> 0,
                         seen |-> <<>>, sequence_number |-> numbers[t], blocks |-> blocks]]

\* BalanceManager::update takes the lock of the map.
UpdateLock(t) ==
    /\ threads[t].pc = "update"
    /\ threads[t].i < count_accounts * MaxRounds
    /\ canLockUnique(state_manager.mutex)
    /\ state_manager' = [state_manager EXCEPT !.mutex = lockUnique(@, t)]
    /\ threads' = [threads EXCEPT ![t].pc = "read"]
    /\ UNCHANGED <<transferFrame, hostVars>>

\* The balances of the sender and the receiver are read.
UpdateRead(t) ==
    /\ threads[t].pc = "read"
    /\ threads' = [threads EXCEPT
                      ![t].pc = "write",
                      ![t].seen = [from |-> getBalance(state_manager.map,
                                                       sender_pos(threads[t].sequence_number,
                                                                  threads[t].i)),
                                   to |-> getBalance(state_manager.map,
                                                     receiver_pos(threads[t].sequence_number,
                                                                  threads[t].i))]]
    /\ UNCHANGED <<state_manager, transferFrame, hostVars>>

\* The transfer is written; the lock is released after a single
\* transaction and after the last transaction of a block.
UpdateWrite(t) ==
    /\ threads[t].pc = "write"
    /\ LET from == sender_pos(threads[t].sequence_number, threads[t].i)
           to == receiver_pos(threads[t].sequence_number, threads[t].i)
           read == [state_manager.map EXCEPT ![from].balance = threads[t].seen.from,
                                             ![to].balance = threads[t].seen.to]
           done == \/ ~threads[t].blocks
                   \/ (threads[t].i + 1) % count_transaction = 0
                   \/ threads[t].i + 1 = count_accounts * MaxRounds
       IN /\ state_manager' =
                [map |-> tryTransferMoney(read, from, to, transfer_tokens),
                 mutex |-> IF done THEN unlock(state_manager.mutex, t)
                           ELSE state_manager.mutex]
          /\ threads' = [threads EXCEPT ![t].pc = IF done THEN "update" ELSE "read",
                                        ![t].i = @ + 1, ![t].seen = <<>>]
    /\ UNCHANGED <<transferFrame, hostVars>>

NextTransfers ==
    \E t \in Threads :
        \/ UpdateLock(t)
        \/ UpdateRead(t)
        \/ UpdateWrite(t)

SpecTransfers == InitTransfers /\ [][NextTransfers]_vars

\* The thread has made all its transfers.
Finished(t) == threads[t].pc = "update" /\ threads[t].i = count_accounts * MaxRounds

\* C31: with several threads applying transfers, one at a time or block by
\* block, to one balance manager, no update is lost: the total of all
\* balances stays what it was, and a thread that cycles funds through
\* accounts no other thread touches finds each of them at its initial
\* balance when it has finished.
C31_TransfersAtomic ==
    /\ SumBalances(state_manager.map, TransferAccounts) =
          Cardinality(TransferAccounts) * balance_each_person
    /\ \A t \in Threads :
          /\ Finished(t)
          /\ \A u \in Threads \ {t} : threads[u].sequence_number # threads[t].sequence_number
          => \A k \in 0..(count_accounts - 1) :
                getBalance(state_manager.map,
                           threads[t].sequence_number * count_accounts + k)
                   = balance_each_person

C31_Witness ==
    /\ \A t \in Threads : Finished(t) /\ threads[t].blocks
    /\ threads[1].sequence_number # threads[2].sequence_number
    /\ state_manager.mutex = Unlocked

(***************************************************************************)
(* lk::TransactionsSet used alone, as in the unit tests of                 *)
(* transactions_set.cpp: add, remove(tx), remove(set), find and isEmpty.   *)
(***************************************************************************)
\* The transactions of the tests are not signed.  trans1 and two
\* transactions that differ from it in the recipient only and in the
\* timestamp only, and one that differs in everything.
trans1 == WithSign(H1, NullSign)
transOtherRecipient == WithSign(Header(GenesisRecipient, Miner, 3, 0, NoData), NullSign)
transOtherTimestamp == [trans1 EXCEPT !.timestamp = GenesisTime + 1]
trans3 == WithSign(H3, NullSign)

SetTxs == {trans1, transOtherRecipient, transOtherTimestamp, trans3}

\* TransactionsSet::isEmpty.
isEmpty(set) == set = <<>>

setFrame == <<blockchain, state_manager, tx_outputs, applied_log, block_added_log,
              subscribers, pc, threads, blockchain_mutex>>

\* tx_set.add(tx).
SetAdd(tx) ==
    /\ pending_transactions' = setAdd(pending_transactions, tx)
    /\ last' = [NoCall EXCEPT !.op = "add", !.arg = tx]
    /\ UNCHANGED <<setFrame, hostVars>>

\* tx_set.remove(tx).
SetRemove(tx) ==
    /\ pending_transactions' = setRemove(pending_transactions, <<tx>>)
    /\ last' = [NoCall EXCEPT !.op = "remove", !.arg = tx]
    /\ UNCHANGED <<setFrame, hostVars>>

\* tx_set.remove(rem_set), with rem_set a set built by add.
SetRemoveSet(tx1, tx2) ==
    /\ pending_transactions' = setRemove(pending_transactions, setAdd(setAdd(<<>>, tx1), tx2))
    /\ last' = [NoCall EXCEPT !.op = "remove_set", !.arg = setAdd(setAdd(<<>>, tx1), tx2)]
    /\ UNCHANGED <<setFrame, hostVars>>

NextSet ==
    \/ \E tx \in SetTxs : SetAdd(tx)
    \/ \E tx \in SetTxs : SetRemove(tx)
    \/ \E tx1, tx2 \in SetTxs : SetRemoveSet(tx1, tx2)

SpecSet == Init /\ [][NextSet]_vars

\* C32: every call leaves the membership the claim describes.  add(tx)
\* makes tx found, changes the membership of no other transaction (so one
\* that differs in the recipient or the timestamp only is not found by
\* it) and changes nothing when tx was present; remove(tx) makes tx not
\* found and leaves the others; remove(set) removes exactly the members of
\* the given set; and the set is empty exactly when no transaction is found.
C32_SetMembership ==
    [][ /\ last'.op = "add" =>
            /\ setFind(pending_transactions', last'.arg)
            /\ \A u \in SetTxs \ {last'.arg} :
                  setFind(pending_transactions', u) = setFind(pending_transactions, u)
            /\ setFind(pending_transactions, last'.arg)
                  => pending_transactions' = pending_transactions
        /\ last'.op = "remove" =>
            /\ ~setFind(pending_transactions', last'.arg)
            /\ \A u \in SetTxs \ {last'.arg} :
                  setFind(pending_transactions', u) = setFind(pending_transactions, u)
        /\ last'.op = "remove_set" =>
            \A u \in SetTxs :
               setFind(pending_transactions', u) =
                  (setFind(pending_transactions, u) /\ u \notin Range(last'.arg))
        /\ isEmpty(pending_transactions') = (\A u \in SetTxs : ~setFind(pending_transactions', u))
      ]_vars

\* remove(set) has removed its two members and left the two others.
C32_Witness ==
    /\ last.op = "remove_set"
    /\ Len(last.arg) = 2
    /\ Len(pending_transactions) = 2
    /\ \A u \in Range(last.arg) : ~setFind(pending_transactions, u)

(***************************************************************************)
(* BLOCK messages at a node whose peer is synchronised or is being caught  *)
(* up with: blocks of this node's chain and of a fork of it arrive in any  *)
(* order.                                                                  *)
(***************************************************************************)
MaxSync == 2      \* blocks the sync buffer holds when a block arrives

\* The chain this node mines, and the first block of another chain.
OwnChain == ChainOf([i \in 1..MaxDepth |-> Signed(H5)], [i \in 1..MaxDepth |-> 1], MaxDepth)
Fork1 == Block(1, hashOfBlock(getGenesisBlock), GenesisTime + MaxTime, Miner, <<>>)

\* Blocks built on the genesis block, on this node's first block and on the
\* first block of the fork.
OfferedBlocks ==
    { Block(p.depth + 1, hashOfBlock(p), p.timestamp + dt, Miner, txs) :
        p \in {getGenesisBlock, OwnChain[1], Fork1},
        dt \in 1..MaxTime,
        txs \in {<<>>, <<Signed(H5)>>} }

\* This node holds its first d blocks; the handshake with the peer has
\* ended with the peer synchronised or with blocks requested from it.
InitBlocks ==
    /\ \E d \in {0, 1} :
          LET ours == Grown(NewCore(Miner), OwnChain, d)
          IN /\ blockchain = ours.bc
             /\ state_manager = ours.sm
             /\ pending_transactions = ours.pool
             /\ tx_outputs = ours.outs
             /\ applied_log = ours.applied
             /\ block_added_log = ours.added
    /\ subscribers = [block |-> <<Broadcast>>, tx |-> <<Broadcast>>]
    /\ pc = "idle"
    /\ last = NoCall
    /\ threads = [t \in Threads |-> IdleThread]
    /\ blockchain_mutex = 0
    /\ \E state \in {"SYNCHRONISED", "REQUESTED_BLOCKS"} :
          peer = [NewPeer("there", TRUE, <<>>) EXCEPT !.state = state]
    /\ remote = <<>>
    /\ network = [here |-> <<>>, there |-> <<>>]
    /\ connection = NewConnection
    /\ pending_transactions_mutex = Unlocked

\* The peer's BLOCK message arrives.
BlockArrives(b) ==
    /\ Len(peer.sync_blocks) < MaxSync
    /\ network.there = <<>>
    /\ Arrive(prepareMessage("BLOCK", <<b>>))

NextBlocks ==
    \/ \E b \in OfferedBlocks : BlockArrives(b)
    \/ Receive
    \/ Depart

SpecBlocks == InitBlocks /\ [][NextBlocks]_vars

IsBlockStep == IsReceiveStep /\ last'.arg[1] = "BLOCK"

\* The hashes appended to applied_log by the step.
NewlyApplied == SubSeq(applied_log', Len(applied_log) + 1, Len(applied_log'))

\* C34: while the peer is not synchronised a received BLOCK is buffered;
\* the buffer is applied, in increasing depth order, when the prev_hash of
\* its lowest block is the hash of the top block, and only then; otherwise
\* the block stays buffered, nothing is applied and a GET_BLOCK for the
\* prev_hash of the lowest buffered block is sent.
C34_SyncBufferAppliedOnLink ==
    [][IsBlockStep /\ peer.state # "SYNCHRONISED" =>
         LET buffered == addSyncBlock(peer.sync_blocks, last'.arg[2])
             lowest == Head(buffered)
         IN IF lowest.prev_hash = getTopBlockHash(blockchain)
            THEN /\ peer'.sync_blocks = <<>>
                 /\ \A i \in 1..(Len(NewlyApplied) - 1) :
                       blockchain'.db.block[NewlyApplied[i]].depth
                          < blockchain'.db.block[NewlyApplied[i + 1]].depth
            ELSE /\ peer'.sync_blocks = buffered
                 /\ UNCHANGED coreVars
                 /\ last'.deliveries = <<prepareMessage("GET_BLOCK", <<lowest.prev_hash>>)>>]_vars

\* C35: a received BLOCK whose prev_hash is not the hash of the top block
\* is not dropped: when the peer is not synchronised it is in the sync
\* buffer afterwards; when the peer is synchronised and the parent is not
\* stored, a GET_BLOCK for the block's prev_hash is sent.
C35_BlockOffTopNotDropped ==
    [][IsBlockStep /\ last'.arg[2].prev_hash # getTopBlockHash(blockchain) =>
         IF peer.state = "SYNCHRONISED"
         THEN last'.arg[2].prev_hash \notin DOMAIN blockchain.db.block
                 => last'.deliveries =
                       <<prepareMessage("GET_BLOCK", <<last'.arg[2].prev_hash>>)>>
         ELSE \E i \in 1..Len(peer'.sync_blocks) : peer'.sync_blocks[i] = last'.arg[2]]_vars

(***************************************************************************)
(* Core::Core on a database that holds a chain: the state manager is       *)
(* seeded from the genesis block and the stored blocks are replayed.       *)
(***************************************************************************)
\* Lines 25 to 30 from depth d on: tryPerformTransaction for every
\* transaction of the block of each depth; an error leaves the constructor.
RECURSIVE replayFrom(_, _, _, _)
replayFrom(sm, outs, bc, d) ==
    IF d > getTopBlock(bc).depth THEN Performed(sm, outs, FALSE)
    ELSE \* line 26: the block stored for depth d, read once
         Only({ IF r.threw THEN r ELSE replayFrom(r.sm, r.outs, bc, d + 1) :
                r \in { performFrom(sm, outs, block, PlainVms(block), 1) :
                          block \in {bc.db.block[bc.by_depth[d]]} } })

\* Lines 20 to 30: the state manager of a node started on the chain bc.
rebuiltState(bc) == replayFrom(updateFromGenesis(EmptyState, getGenesisBlock), {}, bc, 1)

\* C36: the balances a node started on the stored chain rebuilds are the
\* balances of the running node that accepted the blocks, for every
\* account, the emission credited to the coinbase of each block included.
C36_RebuiltStateEqualsRunning ==
    \A a \in Addresses :
       getBalance(rebuiltState(blockchain).sm, a) = getBalance(state_manager, a)

\* C37: a received message, nothing being awaited, is dispatched to the
\* handler of its own type; for NEW_NODE the handler checks out the
\* announced endpoint and what it sends on is tagged NEW_NODE and carries
\* the endpoint and the address.
C37_TagDispatchedToItsHandler ==
    [][IsReceiveStep /\ peer.message_we_are_waiting_for = NOT_AVAILABLE =>
         /\ last'.ret = "returned"
         /\ peer'.last_processed = last'.arg[1]
         /\ last'.arg[1] = "NEW_NODE" =>
               /\ last'.arg[2] \in peer'.checked_out
               /\ \A i \in 1..Len(last'.deliveries) :
                     last'.deliveries[i] =
                        prepareMessage("NEW_NODE", <<last'.arg[2], last'.arg[3]>>)]_vars

(***************************************************************************)
(* EthHost: the callbacks the VM makes while it executes a contract for a  *)
(* transaction.  The VM itself is outside the repository; a frame of it is *)
(* the code it runs and the message it was started with.                   *)
(***************************************************************************)
NULL_VALUE == 0       \* 32 zero bytes
MaxValue == 2         \* storage values are NULL_VALUE..MaxValue
MaxFrames == 3        \* VM frames nested in one another

StorageKeys == {"k1", "k2"}

\* AccountState::checkStorageValue, getStorageValue and setStorageValue.
checkStorageValue(account, key) == key \in DOMAIN account.storage

getStorageValue(account, key) ==
    IF checkStorageValue(account, key) THEN account.storage[key] ELSE NULL_VALUE

setStorageValue(account, key, value) ==
    [account EXCEPT !.storage = [k \in DOMAIN account.storage \cup {key} |->
                                    IF k = key THEN value ELSE account.storage[k]]]

\* StateManager::deleteAccount.
deleteAccount(sm, a) == [sm EXCEPT ![a] = NoAccount]

\* EthHost::get_storage.
get_storage(sm, address, key) ==
    IF hasAccount(sm, address) THEN getStorageValue(sm[address], key) ELSE NULL_VALUE

\* EthHost::set_storage: the state after the call and the status returned.
set_storage(sm, address, key, new_value) ==
    Only({ IF ~checkStorageValue(st[address], key)
           THEN IF new_value = NULL_VALUE
                THEN [sm |-> st, ret |-> "EVMC_STORAGE_UNCHANGED"]
                ELSE [sm |-> [st EXCEPT ![address] = setStorageValue(@, key, new_value)],
                      ret |-> "EVMC_STORAGE_ADDED"]
           ELSE [sm |-> [st EXCEPT ![address] = setStorageValue(@, key, new_value)],
                 ret |-> IF getStorageValue(st[address], key) = new_value
                         THEN "EVMC_STORAGE_UNCHANGED"
                         ELSE IF new_value = NULL_VALUE
                         THEN "EVMC_STORAGE_DELETED"
                         ELSE "EVMC_STORAGE_MODIFIED"] :
           st \in {getAccount(sm, address)} })

MutSelfdestructKeepsBalance(sm, address, beneficiary_address) ==
    deleteAccount(getAccount(getAccount(sm, address), beneficiary_address), address)

\* EthHost::selfdestruct.
selfdestruct(sm, address, beneficiary_address) ==
    Only({ deleteAccount(tryTransferMoney(st, address, beneficiary_address,
                                          getBalance(st, address)),
                         address) :
           st \in {getAccount(getAccount(sm, address), beneficiary_address)} })

Message(depth, sender, destination, value, gas) ==
    [depth |-> depth, sender |-> sender, destination |-> destination, value |-> value,
     gas |-> gas]

\* EthHost::call: the state after the call, the VM invocation it makes (code
\* and message) if the destination is a contract, and the result it returns
\* itself otherwise.
call(sm, msg) ==
    IF hasAccount(sm, msg.destination) /\ sm[msg.destination].type = "CONTRACT"
    THEN [sm |-> sm,
          vm |-> <<[code |-> sm[msg.destination].code, message |-> msg]>>,
          result |-> <<>>]
    ELSE [sm |-> tryTransferMoney(sm, msg.sender, msg.destination, msg.value),
          vm |-> <<>>,
          result |-> [status |-> "EVMC_SUCCESS", gas_left |-> msg.gas]]

\* Core::callContractVm for a call of the deployed contract by the genesis
\* recipient: the first frame.
FirstFrame ==
    [code |-> InitCode, message |-> Message(0, GenesisRecipient, ExistingContract, 0, 1)]

\* The VM of thread 1 runs the contract, which holds c; the caller holds 1.
InitHost ==
    /\ blockchain = blockchainAdd(EmptyChain, getGenesisBlock)
    /\ \E c \in {0, 1} :
          state_manager =
             [a \in Addresses |->
                 IF a = GenesisRecipient THEN ClientAccount(1)
                 ELSE IF a = ExistingContract
                 THEN [exists |-> TRUE, type |-> "CONTRACT", balance |-> c, txs |-> <<>>,
                       code |-> InitCode, storage |-> <<>>]
                 ELSE NoAccount]
    /\ pending_transactions = <<>>
    /\ tx_outputs = {}
    /\ subscribers = [block |-> <<Broadcast>>, tx |-> <<Broadcast>>]
    /\ applied_log = <<>>
    /\ block_added_log = <<>>
    /\ pc = "idle"
    /\ last = NoCall
    /\ threads = [t \in Threads |->
                     IF t = 1
                     THEN [pc |-> "vm", block |-> <<>>, ret |-> "none", frames |-> <<FirstFrame>>]
                     ELSE IdleThread]
    /\ blockchain_mutex = 0
    /\ HostInit

hostFrame == <<blockchain, pending_transactions, tx_outputs, applied_log, block_added_log,
               subscribers, pc, blockchain_mutex>>

\* The frame the VM is executing, and the contract it executes.
Frames == threads[1].frames
Running == Frames[Len(Frames)]
Executing == Running.message.destination

\* The VM calls set_storage for the contract it executes.
HostSetStorage(key, value) ==
    /\ \E r \in {set_storage(state_manager, Executing, key, value)} :
          /\ state_manager' = r.sm
          /\ last' = [op |-> "set_storage", arg |-> <<Executing, key, value>>, ret |-> r.ret,
                      deliveries |-> <<>>]
    /\ UNCHANGED <<threads, hostFrame, hostVars>>

\* The VM calls get_storage.
HostGetStorage(address, key) ==
    /\ last' = [op |-> "get_storage", arg |-> <<address, key>>,
                ret |-> get_storage(state_manager, address, key), deliveries |-> <<>>]
    /\ UNCHANGED <<state_manager, threads, hostFrame, hostVars>>

\* The VM calls selfdestruct.
HostSelfdestruct(address, beneficiary_address) ==
    /\ state_manager' = selfdestruct(state_manager, address, beneficiary_address)
    /\ last' = [op |-> "selfdestruct", arg |-> <<address, beneficiary_address>>,
                ret |-> getBalance(state_manager, address), deliveries |-> <<>>]
    /\ UNCHANGED <<threads, hostFrame, hostVars>>

\* The messages the VM builds for a call made by the running frame: the
\* sender is the executing contract, the depth is one more than the depth
\* of the running frame, and the gas of the frame is passed on.
VmMessages ==
    { Message(Running.message.depth + 1, Executing, destination, value, Running.message.gas) :
        destination \in {ExistingContract, UserA}, value \in {0, 1} }

\* The VM calls call(msg); for a contract the VM is entered again.
HostCall(msg) ==
    /\ Len(Frames) < MaxFrames
    /\ \E r \in {call(state_manager, msg)} :
          /\ state_manager' = r.sm
          /\ threads' = [threads EXCEPT ![1].frames = @ \o r.vm]
          /\ last' = [op |-> "call", arg |-> msg, ret |-> r.result, deliveries |-> r.vm]
    /\ UNCHANGED <<hostFrame, hostVars>>

\* The nested execution ends and the VM goes on with the calling frame.
VmReturn ==
    /\ Len(Frames) > 1
    /\ threads' = [threads EXCEPT ![1].frames = SubSeq(@, 1, Len(@) - 1)]
    /\ last' = [op |-> "return", arg |-> Running.message, ret |-> <<>>, deliveries |-> <<>>]
    /\ UNCHANGED <<state_manager, hostFrame, hostVars>>

NextHost ==
    \/ \E key \in StorageKeys, value \in NULL_VALUE..MaxValue : HostSetStorage(key, value)
    \/ \E address \in {ExistingContract, UserA}, key \in StorageKeys :
          HostGetStorage(address, key)
    \/ \E address \in {ExistingContract, UserA},
          beneficiary_address \in {ExistingContract, UserA} :
          HostSelfdestruct(address, beneficiary_address)
    \/ \E msg \in VmMessages : HostCall(msg)
    \/ VmReturn

SpecHost == InitHost /\ [][NextHost]_vars

\* The step is the host callback op and not a stuttering step.
IsHostStep(op) ==
    /\ last'.op = op
    /\ last' # last \/ state_manager' # state_manager \/ threads' # threads

\* C38: set_storage(a, k, v) reports the change against the prior value of
\* the slot, an absent slot counting as zero: UNCHANGED if v is the prior
\* value, ADDED if the prior value is zero and v is not, DELETED if the prior
\* value is not zero and v is, MODIFIED otherwise, after any earlier calls;
\* and get_storage(a, k) then returns v.
C38_SetStorageStatus ==
    [][IsHostStep("set_storage") =>
         LET a == last'.arg[1]
             k == last'.arg[2]
             v == last'.arg[3]
             prior == get_storage(state_manager, a, k)
         IN /\ last'.ret = IF v = prior THEN "EVMC_STORAGE_UNCHANGED"
                           ELSE IF prior = NULL_VALUE THEN "EVMC_STORAGE_ADDED"
                           ELSE IF v = NULL_VALUE THEN "EVMC_STORAGE_DELETED"
                           ELSE "EVMC_STORAGE_MODIFIED"
            /\ get_storage(state_manager', a, k) = v]_vars

\* C39: call(msg) with a contract as destination enters the VM on the
\* runtime code of that contract with a message one deeper than the calling
\* frame; with another destination it moves msg.value from msg.sender to
\* the destination and returns success with gas_left = msg.gas.
C39_HostCall ==
    [][IsHostStep("call") =>
         LET msg == last'.arg
             to == msg.destination
             from == msg.sender
         IN IF hasAccount(state_manager, to) /\ state_manager[to].type = "CONTRACT"
            THEN /\ Len(threads'[1].frames) = Len(Frames) + 1
                 /\ threads'[1].frames[Len(Frames) + 1].code = state_manager[to].code
                 /\ threads'[1].frames[Len(Frames) + 1].message.depth
                       = Running.message.depth + 1
            ELSE /\ last'.ret = [status |-> "EVMC_SUCCESS", gas_left |-> msg.gas]
                 /\ from # to =>
                       /\ getBalance(state_manager', from)
                             = getBalance(state_manager, from) - msg.value
                       /\ getBalance(state_manager', to)
                             = getBalance(state_manager, to) + msg.value]_vars

\* The original statement of C40: for every pair of addresses, the
\* beneficiary being the account itself included, the account is gone, the
\* beneficiary has gained its balance and the total is unchanged.
C40_SelfdestructPreservesTotal ==
    [][IsHostStep("selfdestruct") =>
         LET a == last'.arg[1]
             beneficiary == last'.arg[2]
         IN /\ ~hasAccount(state_manager', a)
            /\ getBalance(state_manager', beneficiary)
                  = getBalance(state_manager, beneficiary) + getBalance(state_manager, a)
            /\ TotalBalance(state_manager') = TotalBalance(state_manager)]_vars

\* C40: selfdestruct(a, beneficiary) removes account a; when the beneficiary
\* is another account it gains the whole balance of a and the total of all
\* balances is unchanged; when the beneficiary is a itself the balance goes
\* with the account and the total falls by it.
C40_SelfdestructMovesBalance ==
    [][IsHostStep("selfdestruct") =>
         LET a == last'.arg[1]
             beneficiary == last'.arg[2]
         IN /\ ~hasAccount(state_manager', a)
            /\ getBalance(state_manager', a) = 0
            /\ beneficiary # a =>
                  /\ getBalance(state_manager', beneficiary)
                        = getBalance(state_manager, beneficiary)
                             + getBalance(state_manager, a)
                  /\ TotalBalance(state_manager') = TotalBalance(state_manager)
            /\ beneficiary = a =>
                  TotalBalance(state_manager')
                     = TotalBalance(state_manager) - getBalance(state_manager, a)]_vars

\* The contract has destroyed itself in favour of another account, which
\* has received its balance.
C40_Witness ==
    /\ last.op = "selfdestruct"
    /\ last.arg = <<ExistingContract, UserA>>
    /\ last.ret > 0
    /\ ~hasAccount(state_manager, ExistingContract)
    /\ getBalance(state_manager, UserA) >= last.ret

====
